---- MODULE Spec2Model ----
(***************************************************************************)
(* The concurrent LLM-batch annotation pipeline of the monthly tracking    *)
(* analyses: a dispatcher submits one task per entity (a row, or a         *)
(* brand/company group) to a thread pool, collects the futures as they     *)
(* complete, and aggregates the collected results.                          *)
(*                                                                         *)
(* One run of one dispatcher is modelled; `pipeline` says which one.        *)
(* Tasks are numbered 1..n in submission order.  The LLM is the            *)
(* environment: each call either raises or returns a response text.        *)
(***************************************************************************)
EXTENDS Integers, Sequences, FiniteSets, TLC

VARIABLES
    pipeline,   \* which dispatcher runs
    entities,   \* the submitted entities, in submission order
    pc,         \* position of the dispatching (main) thread
    fut,        \* fut[i]: the future of task i
    llm_calls,  \* llm_calls[i]: LLM requests made so far by worker i
    attempt,    \* attempt[i]: tenacity attempt_number of worker i
    waits,      \* waits[i]: the backoff sleeps worker i has taken
    yielded,    \* futures in the order as_completed has yielded them
    acc,        \* the collections the dispatching thread fills
    out,        \* what the dispatcher returned (or that it raised)
    debug_count \* analyze_individual_post.debug_count (0: not set), saturated

vars == <<pipeline, entities, pc, fut, llm_calls, attempt, waits, yielded, acc, out,
          debug_count>>

-----------------------------------------------------------------------------
(* Bounds of the model *)

MaxRows == 2        \* rows of a data frame given to run_compos_analysis
MaxGroups == 2      \* brand/company groups given to a grouped dispatcher

(* Program constants *)

MAX_WORKERS == 20
MIN_ADS_FOR_ANALYSIS == 5
MIN_POSTS_FOR_ANALYSIS == 5
TOP_K_PER_BRAND == 10

-----------------------------------------------------------------------------
(* Python values and string operations, on sequences of characters/tokens *)

Range(s) == {s[k] : k \in DOMAIN s}

Min(a, b) == IF a <= b THEN a ELSE b
Max(a, b) == IF a >= b THEN a ELSE b

\* A cell of a text column: a str, the float NaN of a missing cell, or the
\* pd.NA of a missing cell of a nullable column.
Str(s) == [t |-> "str", s |-> s]
NaN == [t |-> "float", s |-> <<>>]
NA == [t |-> "NA", s |-> <<>>]

\* bool(pd.NA) raises TypeError
BoolRaises(x) == x.t = "NA"

WhiteSpace == {" ", "NL"}

\* bool(x): the empty str is falsy, the float NaN is truthy
Truthy(x) == IF x.t = "str" THEN Len(x.s) > 0 ELSE TRUE

\* str(x)
PyStr(x) ==
    CASE x.t = "str" -> x.s
      [] x.t = "float" -> <<"n", "a", "n">>
      [] x.t = "NA" -> <<"<", "N", "A", ">">>

RECURSIVE LStrip(_)
LStrip(s) == IF s # <<>> /\ Head(s) \in WhiteSpace THEN LStrip(Tail(s)) ELSE s

RECURSIVE RStrip(_)
RStrip(s) ==
    IF s # <<>> /\ s[Len(s)] \in WhiteSpace THEN RStrip(SubSeq(s, 1, Len(s) - 1)) ELSE s

\* s.strip()
Strip(s) == RStrip(LStrip(s))

LowerChar(c) == CASE c = "N" -> "n" [] c = "A" -> "a" [] OTHER -> c

\* s.lower()
Lower(s) == [k \in DOMAIN s |-> LowerChar(s[k])]

\* index of the first occurrence of token c in s, 0 if there is none
RECURSIVE FindFrom(_, _, _)
FindFrom(s, c, k) ==
    IF k > Len(s) THEN 0 ELSE IF s[k] = c THEN k ELSE FindFrom(s, c, k + 1)

Find(s, c) == FindFrom(s, c, 1)

\* s.splitlines()
RECURSIVE SplitLines(_)
SplitLines(s) ==
    IF s = <<>> THEN <<>>
    ELSE LET k == Find(s, "NL") IN
         IF k = 0 THEN <<s>>
         ELSE <<SubSeq(s, 1, k - 1)>> \o SplitLines(SubSeq(s, k + 1, Len(s)))

\* s.replace(c, "")
RECURSIVE Remove(_, _)
Remove(s, c) ==
    IF s = <<>> THEN <<>>
    ELSE IF Head(s) = c THEN Remove(Tail(s), c) ELSE <<Head(s)>> \o Remove(Tail(s), c)

\* str(n) of a small number
NumStr(n) == <<"0", "1", "2", "3", "4", "5", "6", "7", "8", "9", "10">>[n + 1]

-----------------------------------------------------------------------------
(* The LLM: a call raises, or returns a response (a sequence of tokens) *)

Raise == [kind |-> "raise", text |-> <<>>]
Reply(text) == [kind |-> "reply", text |-> text]

\* sequences of length n that are `base` everywhere, or differ from it at one
\* of the positions `at` by a value of `alts`
Vary(n, base, alts, at) ==
    {[k \in 1..n |-> base]} \cup
    {[k \in 1..n |-> IF k = j THEN a ELSE base] : j \in at \cap (1..n), a \in alts}

\* Responses to the archetype prompt
ArchetypeReplies ==
    { <<"Top Archetype", ":", " ", "The ", "Expert">>,
      <<"Sure", "NL", "Top Archetype", ":", " ", "The ", "Mentor", "NL">>,
      <<"The ", "Mentor">>,
      <<"Top Archetype", ":", " ">> }

ArchetypeOutcomes == {Raise} \cup {Reply(r) : r \in ArchetypeReplies}

\* Cells of the text column
TextValues ==
    { Str(<<>>), Str(<<" ">>), Str(<<"n", "a", "n">>), NaN, NA, Str(<<"a", "d">>) }

-----------------------------------------------------------------------------
(* Results of a future *)

Returned(v) == [state |-> "finished", raised |-> FALSE, value |-> v]
Raised == [state |-> "finished", raised |-> TRUE, value |-> <<>>]

NoContent == <<"No Content">>
ErrorLabel == <<"Error">>
ParsingError == <<"Parsing Error">>

\* What a worker function did: the future's result and the LLM requests made
Did(result, calls) == [result |-> result, calls |-> calls]

-----------------------------------------------------------------------------
(* Archetype workers *)

\* the guard of assign_archetype (ads and social media)
IsNoContent(text) ==
    \/ ~Truthy(text)
    \/ Strip(PyStr(text)) = <<>>
    \/ Lower(PyStr(text)) = <<"n", "a", "n">>

\* index of the first line holding the token "Top Archetype", 0 if none
RECURSIVE FirstMarkerLine(_, _)
FirstMarkerLine(lines, k) ==
    IF k > Len(lines) THEN 0
    ELSE IF "Top Archetype" \in Range(lines[k]) THEN k
    ELSE FirstMarkerLine(lines, k + 1)

\* The line scan of the ads and PR workers.  [raised, label]: the unpacking
\* of line.split(":", 1) raises ValueError when the marker line has no colon.
ParseTopArchetype(output) ==
    LET lines == SplitLines(output)
        k == FirstMarkerLine(lines, 1)
    IN  IF k = 0 THEN [raised |-> FALSE, label |-> ParsingError]
        ELSE LET line == lines[k]
                 c == Find(line, ":")
             IN  IF c = 0 THEN [raised |-> TRUE, label |-> <<>>]
                 ELSE LET value == Strip(SubSeq(line, c + 1, Len(line)))
                      IN  [raised |-> FALSE,
                           label |-> IF value = <<>> THEN ParsingError ELSE value]

\* ads: assign_archetype(text, idx), given the outcome of its LLM call
assign_archetype_ads(text, idx, llm) ==
    IF BoolRaises(text) THEN Did(Raised, 0)
    ELSE IF IsNoContent(text) THEN Did(Returned(<<idx, NoContent>>), 0)
    ELSE IF llm.kind = "raise" THEN Did(Returned(<<idx, ErrorLabel>>), 1)
    ELSE LET p == ParseTopArchetype(llm.text)
         IN  IF p.raised THEN Did(Returned(<<idx, ErrorLabel>>), 1)
             ELSE Did(Returned(<<idx, p.label>>), 1)

\* index of the first "Top Archetype" token directly followed by ":", from k on
RECURSIVE FindMarkerColon(_, _)
FindMarkerColon(s, k) ==
    IF k + 1 > Len(s) THEN 0
    ELSE IF s[k] = "Top Archetype" /\ s[k + 1] = ":" THEN k
    ELSE FindMarkerColon(s, k + 1)

\* response.split("Top Archetype:")[1], the marker being present
AfterMarker(s) ==
    LET k == FindMarkerColon(s, 1)
        rest == SubSeq(s, k + 2, Len(s))
        nxt == FindMarkerColon(rest, 1)
    IN  IF nxt = 0 THEN rest ELSE SubSeq(rest, 1, nxt - 1)

\* The extraction of the social media worker
ExtractArchetype(content) ==
    LET response == Strip(content)
        archetype == IF FindMarkerColon(response, 1) # 0
                     THEN Strip(AfterMarker(response))
                     ELSE Strip(response)
    IN  Strip(Remove(archetype, "The "))

\* social media: the body of assign_archetype(text, idx) (one tenacity
\* attempt), given the outcome of its LLM call
assign_archetype_social_media(text, idx, llm) ==
    IF BoolRaises(text) THEN Did(Raised, 0)
    ELSE IF IsNoContent(text) THEN Did(Returned(<<idx, NoContent>>), 0)
    ELSE IF llm.kind = "raise" THEN Did(Returned(<<idx, ErrorLabel>>), 1)
    ELSE Did(Returned(<<idx, ExtractArchetype(llm.text)>>), 1)

-----------------------------------------------------------------------------
(* PR archetype worker *)

\* assign_archetype_to_content(content, company_name), given the outcome of
\* its LLM call.  [label, calls].  content.strip() raises AttributeError on a
\* float inside the try block, as bool(pd.NA) does.
assign_archetype_to_content(content, llm) ==
    IF BoolRaises(content) THEN [label |-> ErrorLabel, calls |-> 0]
    ELSE IF ~Truthy(content) THEN [label |-> NoContent, calls |-> 0]
    ELSE IF content.t # "str" THEN [label |-> ErrorLabel, calls |-> 0]
    ELSE IF Strip(content.s) = <<>> THEN [label |-> NoContent, calls |-> 0]
    ELSE IF llm.kind = "raise" THEN [label |-> ErrorLabel, calls |-> 1]
    ELSE LET p == ParseTopArchetype(llm.text)
         IN  IF p.raised THEN [label |-> ErrorLabel, calls |-> 1]
             ELSE [label |-> p.label, calls |-> 1]

\* The assignment loop of analyze_company_archetypes from item k on.
\* len(content) raises TypeError on a float, outside any try block.
RECURSIVE AssignContents(_, _, _, _, _)
AssignContents(contents, llms, k, assignments, calls) ==
    IF k > Len(contents)
    THEN [raised |-> FALSE, assignments |-> assignments, calls |-> calls]
    ELSE LET a == assign_archetype_to_content(contents[k], llms[k]) IN
         IF contents[k].t # "str"
         THEN [raised |-> TRUE, assignments |-> assignments, calls |-> calls + a.calls]
         ELSE AssignContents(contents, llms, k + 1,
                  Append(assignments, [content_index |-> k - 1,
                                       content |-> contents[k],
                                       archetype |-> a.label]),
                  calls + a.calls)

\* archetype_counts[label] = archetype_counts.get(label, 0) + 1, the dict
\* kept as the list of its (label, count) items in insertion order
CountLabel(counts, label) ==
    IF \E k \in DOMAIN counts : counts[k][1] = label
    THEN [k \in DOMAIN counts |->
             IF counts[k][1] = label THEN <<label, counts[k][2] + 1>> ELSE counts[k]]
    ELSE Append(counts, <<label, 1>>)

RECURSIVE CountLabels(_, _)
CountLabels(labels, counts) ==
    IF labels = <<>> THEN counts
    ELSE CountLabels(Tail(labels), CountLabel(counts, Head(labels)))

\* max(counts.items(), key=lambda x: x[1])[0]: the first item of maximal count
TopOf(counts) ==
    LET best == CHOOSE k \in DOMAIN counts :
                   /\ \A j \in DOMAIN counts : counts[j][2] <= counts[k][2]
                   /\ \A j \in DOMAIN counts : j < k => counts[j][2] < counts[k][2]
    IN  counts[best][1]

\* analyze_company_archetypes((company_name, contents)), given the outcomes
\* of the LLM calls it makes
analyze_company_archetypes(company, contents, llms) ==
    IF Len(contents) < MIN_ADS_FOR_ANALYSIS
    THEN Did(Returned([company |-> company,
                       archetype_count |-> Len(contents),
                       error |-> <<"Too few PR materials", Len(contents), MIN_ADS_FOR_ANALYSIS>>]), 0)
    ELSE LET r == AssignContents(contents, llms, 1, <<>>, 0) IN
         IF r.raised THEN Did(Raised, r.calls)
         ELSE LET counts == CountLabels([k \in DOMAIN r.assignments |->
                                            r.assignments[k].archetype], <<>>)
              IN  Did(Returned([company |-> company,
                                total_materials |-> Len(contents),
                                top_archetype |-> IF counts = <<>> THEN <<"Unknown">>
                                                  ELSE TopOf(counts),
                                archetype_distribution |-> counts,
                                archetype_assignments |-> r.assignments]), r.calls)

-----------------------------------------------------------------------------
(* tenacity: @retry(wait=wait_exponential(...), stop=stop_after_attempt(...)) *)

SM_STOP_AFTER_ATTEMPT == 3
SM_WAIT_MIN == 4
SM_WAIT_MAX == 10
TOPK_STOP_AFTER_ATTEMPT == 5
TOPK_WAIT_MIN == 1
TOPK_WAIT_MAX == 30

RECURSIVE Pow2(_)
Pow2(k) == IF k <= 0 THEN 1 ELSE 2 * Pow2(k - 1)

\* wait_exponential(multiplier=1, min=lo, max=hi) after attempt number n
wait_exponential(n, lo, hi) == Max(Max(0, lo), Min(Pow2(n - 1), hi))

\* a stop condition that allows one attempt more
stop_after_one_more(n, limit) == n >= limit + 1

\* stop_after_attempt(limit), asked after attempt number n
stop_after_attempt(n, limit) == n >= limit

-----------------------------------------------------------------------------
(* The thread pool and the dispatching thread *)

Tasks == DOMAIN entities
NumTasks == Len(entities)

Unsubmitted == [state |-> "unsubmitted", raised |-> FALSE, value |-> <<>>]
Pending == [state |-> "pending", raised |-> FALSE, value |-> <<>>]
Running == [state |-> "running", raised |-> FALSE, value |-> <<>>]

InState(st) == {i \in Tasks : fut[i].state = st}

ComposPipelines == {"ads_compos", "sm_compos"}

\* executor.submit(...) of the next entity; after the last one the thread
\* enters the as_completed loop
Submit ==
    /\ pc = "submit"
    /\ LET i == NumTasks - Cardinality(InState("unsubmitted")) + 1 IN
        /\ fut' = [fut EXCEPT ![i] = Pending]
        /\ pc' = IF i = NumTasks THEN "collect" ELSE "submit"
    /\ UNCHANGED <<debug_count, pipeline, entities, llm_calls, attempt, waits, yielded, acc, out>>

\* A pool thread takes the oldest queued work item
StartTask(i) ==
    /\ fut[i].state = "pending"
    /\ \A j \in Tasks : j < i => fut[j].state # "pending"
    /\ Cardinality(InState("running")) < MAX_WORKERS
    /\ fut' = [fut EXCEPT ![i] = Running]
    /\ UNCHANGED <<debug_count, pipeline, entities, pc, llm_calls, attempt, waits, yielded, acc, out>>

\* A worker function ran to its end
Finish(i, d) ==
    /\ fut' = [fut EXCEPT ![i] = d.result]
    /\ llm_calls' = [llm_calls EXCEPT ![i] = @ + d.calls]

\* One attempt of a function under @retry ended as d
RetryStep(i, d, limit, lo, hi) ==
    LET n == attempt[i] + 1 IN
    /\ attempt' = [attempt EXCEPT ![i] = n]
    /\ llm_calls' = [llm_calls EXCEPT ![i] = @ + d.calls]
    /\ IF ~d.result.raised
       THEN fut' = [fut EXCEPT ![i] = d.result] /\ UNCHANGED waits
       ELSE IF stop_after_attempt(n, limit)
       THEN fut' = [fut EXCEPT ![i] = Raised] /\ UNCHANGED waits
       ELSE /\ waits' = [waits EXCEPT ![i] = Append(@, wait_exponential(n, lo, hi))]
            /\ UNCHANGED fut

\* ads worker thread: assign_archetype(text, idx)
AssignArchetypeAds(i) ==
    /\ pipeline = "ads_compos"
    /\ fut[i].state = "running"
    /\ \E llm \in ArchetypeOutcomes :
          Finish(i, assign_archetype_ads(entities[i].text, entities[i].idx, llm))
    /\ UNCHANGED <<debug_count, pipeline, entities, pc, attempt, waits, yielded, acc, out>>

\* social media worker thread: one attempt of the retrying assign_archetype
AssignArchetypeSocialMedia(i) ==
    /\ pipeline = "sm_compos"
    /\ fut[i].state = "running"
    /\ \E llm \in ArchetypeOutcomes :
          RetryStep(i, assign_archetype_social_media(entities[i].text, entities[i].idx, llm),
                    SM_STOP_AFTER_ATTEMPT, SM_WAIT_MIN, SM_WAIT_MAX)
    /\ UNCHANGED <<debug_count, pipeline, entities, pc, yielded, acc, out>>

\* as_completed can yield future i
CanYield(i) ==
    /\ pc = "collect"
    /\ fut[i].state = "finished"
    /\ i \notin Range(yielded)

\* a collection loop whose except branch only logs
collect_compos_log_only(results, f, idx) ==
    IF f.raised THEN results ELSE Append(results, f.value)

\* The body of the collection loop of run_compos_analysis for one future
collect_compos(results, f, idx) ==
    IF f.raised THEN Append(results, <<idx, ErrorLabel>>)
    ELSE Append(results, f.value)

CollectCompos(i) ==
    /\ pipeline \in ComposPipelines
    /\ CanYield(i)
    /\ yielded' = Append(yielded, i)
    /\ acc' = [acc EXCEPT !.results = collect_compos(@, fut[i], entities[i].idx)]
    /\ UNCHANGED <<debug_count, pipeline, entities, pc, fut, llm_calls, attempt, waits, out>>

\* results left in completion order
KeepCompletionOrder(s) == s

\* insert x into the sorted list s after every element whose key is <= x's
RECURSIVE InsertByIndex(_, _)
InsertByIndex(s, x) ==
    IF s = <<>> THEN <<x>>
    ELSE IF x[1] < Head(s)[1] THEN <<x>> \o s
    ELSE <<Head(s)>> \o InsertByIndex(Tail(s), x)

\* results.sort(key=lambda x: x[0]), a stable sort
RECURSIVE SortByIndex(_)
SortByIndex(s) ==
    IF s = <<>> THEN <<>>
    ELSE InsertByIndex(SortByIndex(SubSeq(s, 1, Len(s) - 1)), s[Len(s)])

\* df_result["Top Archetype"] = [result[1] for result in results]: pandas
\* raises ValueError unless the list has one value per row
build_df_result(results, nrows) ==
    IF Len(results) # nrows THEN [status |-> "raised"]
    ELSE [status |-> "returned",
          TopArchetype |-> [k \in 1..Len(results) |-> results[k][2]]]

\* an end of run_compos_analysis that does not wait for the pool: it builds
\* the frame from what has been collected so far
FinishComposWithoutWaiting ==
    /\ pipeline \in ComposPipelines
    /\ pc = "collect"
    /\ acc' = [acc EXCEPT !.results = SortByIndex(@)]
    /\ out' = build_df_result(acc'.results, NumTasks)
    /\ pc' = "done"
    /\ UNCHANGED <<debug_count, pipeline, entities, fut, llm_calls, attempt, waits, yielded>>

\* The end of run_compos_analysis: the pool is shut down, the results are
\* sorted and the column is added
FinishCompos ==
    /\ pipeline \in ComposPipelines
    /\ pc = "collect"
    /\ Len(yielded) = NumTasks
    /\ acc' = [acc EXCEPT !.results = SortByIndex(@)]
    /\ out' = build_df_result(acc'.results, NumTasks)
    /\ pc' = "done"
    /\ UNCHANGED <<debug_count, pipeline, entities, fut, llm_calls, attempt, waits, yielded>>

-----------------------------------------------------------------------------
(* PR archetype dispatcher: analyze_compos_for_month *)

BrandNames == <<"Acme", "Bolt", "Cato", "Dune">>

\* round(count / total * 100, 1), in tenths of a percent (ties to even)
PctTenths(count, total) ==
    LET q == (count * 1000) \div total
        r == (count * 1000) % total
    IN  IF 2 * r < total THEN q
        ELSE IF 2 * r > total THEN q + 1
        ELSE IF q % 2 = 0 THEN q ELSE q + 1

HasError(result) == "error" \in DOMAIN result

IsValidResult(result) == ~HasError(result)

\* the outcomes of the LLM calls of one PR worker
PRRuns(n) ==
    Vary(n, Reply(<<"Top Archetype", ":", " ", "Expert">>),
         {Raise, Reply(<<"The ", "Mentor">>)}, {1, n})

\* PR worker thread: analyze_company_archetypes(data)
AnalyzeCompanyArchetypes(i) ==
    /\ pipeline = "pr_compos"
    /\ fut[i].state = "running"
    /\ \E llms \in PRRuns(Len(entities[i].contents)) :
          Finish(i, analyze_company_archetypes(entities[i].company, entities[i].contents, llms))
    /\ UNCHANGED <<debug_count, pipeline, entities, pc, attempt, waits, yielded, acc, out>>

\* The body of the collection loop of the PR and audience-affinity
\* dispatchers for one future: an exception of the future is logged only
collect_company(company_results, f) ==
    IF f.raised THEN company_results ELSE Append(company_results, f.value)

CollectCompany(i) ==
    /\ pipeline \in {"pr_compos", "audience_affinity"}
    /\ CanYield(i)
    /\ yielded' = Append(yielded, i)
    /\ acc' = [acc EXCEPT !.company_results = collect_company(@, fut[i])]
    /\ UNCHANGED <<debug_count, pipeline, entities, pc, fut, llm_calls, attempt, waits, out>>

\* create_archetype_summary(company_results): one row per valid result, in
\* list order
create_archetype_summary(company_results) ==
    LET valid == SelectSeq(company_results, IsValidResult) IN
    [k \in DOMAIN valid |->
        [Company |-> valid[k].company,
         TotalMaterials |-> valid[k].total_materials,
         TopArchetype |-> valid[k].top_archetype,
         Shares |-> [j \in DOMAIN valid[k].archetype_distribution |->
                        <<valid[k].archetype_distribution[j][1],
                          valid[k].archetype_distribution[j][2],
                          PctTenths(valid[k].archetype_distribution[j][2],
                                    valid[k].total_materials)>>]]]

\* the "Skipped Companies" sheet of the PR and audience-affinity workbooks
skipped_sheet(company_results, count_key) ==
    LET skipped == SelectSeq(company_results, HasError) IN
    [k \in DOMAIN skipped |->
        [Company |-> skipped[k].company,
         Count |-> skipped[k][count_key],
         Reason |-> skipped[k].error]]

\* The end of the PR analyze_compos_for_month: summary and workbook
FinishPR ==
    /\ pipeline = "pr_compos"
    /\ pc = "collect"
    /\ Len(yielded) = NumTasks
    /\ out' = [status |-> "returned",
               Summary |-> create_archetype_summary(acc.company_results),
               Skipped |-> skipped_sheet(acc.company_results, "archetype_count")]
    /\ pc' = "done"
    /\ UNCHANGED <<debug_count, pipeline, entities, fut, llm_calls, attempt, waits, yielded, acc>>

-----------------------------------------------------------------------------
(* Audience affinity: worker and dispatcher *)

PERSONA_PROMPTS ==
    << [name |-> "Families & Household Shoppers",
        columns |-> <<"Family_Kids_Products", "Family_Kids_Events",
                      "Family_Household_Discounts">>],
       [name |-> "Young Adults - Tech & Fashion",
        columns |-> <<"Young_Tech_Gaming", "Young_Fashion_Style", "Young_Social_Events">>],
       [name |-> "Store Owners & Business Partners",
        columns |-> <<"Store_Business_Growth", "Store_Partnership_CoMarketing",
                      "Store_Market_Insights">>],
       [name |-> "Shopping Experience & Mall Environment",
        columns |-> <<"Experience_Accessibility_Comfort", "Experience_Ambience_Design",
                      "Experience_Mallwide_Events">>] >>

NEUTRAL_SCORE == 4
HIGH_SCORE == 6

\* A response line is a sequence of characters.  A character that is a column
\* name stands for a phrase of column_mappings[col]; " " separates the words.
DigitWords == {"0", "1", "2", "3", "4", "5", "6", "7", "8", "9", "10"}

\* int(word) of a word with word.isdigit()
IntOf(w) ==
    CASE w = "0" -> 0 [] w = "1" -> 1 [] w = "2" -> 2 [] w = "3" -> 3
      [] w = "4" -> 4 [] w = "5" -> 5 [] w = "6" -> 6 [] w = "7" -> 7
      [] w = "8" -> 8 [] w = "9" -> 9 [] w = "10" -> 10

\* line.split(): the words of the line
RECURSIVE SplitWords(_)
SplitWords(s) ==
    IF s = <<>> THEN <<>>
    ELSE IF Head(s) = " " THEN SplitWords(Tail(s))
    ELSE LET at == Find(s, " ") IN
         IF at = 0 THEN <<s>>
         ELSE <<SubSeq(s, 1, at - 1)>> \o SplitWords(SubSeq(s, at + 1, Len(s)))

\* word.isdigit()
WordIsDigit(w) == \A k \in DOMAIN w : w[k] \in DigitWords

\* int(word) of a word of digits
RECURSIVE WordInt(_)
WordInt(w) ==
    IF w = <<>> THEN 0
    ELSE WordInt(SubSeq(w, 1, Len(w) - 1)) * (IF w[Len(w)] = "10" THEN 100 ELSE 10)
         + IntOf(w[Len(w)])

\* the first word of the line that is a number in 1..7; 0 (None) if none
RECURSIVE FirstScore(_)
FirstScore(words) ==
    IF words = <<>> THEN 0
    ELSE IF WordIsDigit(Head(words)) /\ 1 <= WordInt(Head(words)) /\ WordInt(Head(words)) <= 7
    THEN WordInt(Head(words))
    ELSE FirstScore(Tail(words))

\* the loop over the response lines: a line that names a column and carries
\* a score stores it under that column
RECURSIVE ScanAffinityLines(_, _, _)
ScanAffinityLines(lines, columns, scores) ==
    IF lines = <<>> THEN scores
    ELSE LET line == Strip(Head(lines))
             score == FirstScore(SplitWords(line))
         IN  ScanAffinityLines(Tail(lines), columns,
                [c \in DOMAIN scores |->
                    IF c \in Range(line) /\ score # 0 THEN score ELSE scores[c]])

\* the scores as found by the scan, a column without one left at 0
unfilled_scores(response_text, persona) ==
    LET columns == PERSONA_PROMPTS[persona].columns IN
    ScanAffinityLines(SplitLines(response_text), columns, [c \in Range(columns) |-> 0])

\* parse_affinity_response(response_text, persona_name): the scores by
\* column, missing ones filled with the neutral value
parse_affinity_response(response_text, persona) ==
    LET found == unfilled_scores(response_text, persona) IN
    [c \in DOMAIN found |-> IF found[c] = 0 THEN NEUTRAL_SCORE ELSE found[c]]

\* analyze_individual_post(post_content, persona_name, persona_config), given
\* the outcome of its LLM call
analyze_individual_post(post, persona, llm) ==
    IF llm.kind = "raise"
    THEN [c \in Range(PERSONA_PROMPTS[persona].columns) |-> NEUTRAL_SCORE]
    ELSE parse_affinity_response(llm.text, persona)

\* a response that gives every dimension of the persona the score word w
AffinityReply(persona, w) ==
    LET c == PERSONA_PROMPTS[persona].columns IN
    Reply(<<c[1], ":", " ", w, "NL", c[2], ":", " ", w, "NL", c[3], ":", " ", w>>)

\* the k-th scoring call of a company with n posts is for this persona/post
PersonaOfCall(k, n) == ((k - 1) \div n) + 1

\* the scoring loop of analyze_company_affinity: all_scores[persona][post]
AllPostScores(posts, llms) ==
    [p \in DOMAIN PERSONA_PROMPTS |->
        [j \in DOMAIN posts |->
            analyze_individual_post(posts[j], p, llms[(p - 1) * Len(posts) + j])]]

\* round(a / b, 1) of a value in tenths (ties to even)
RoundDiv(a, b) ==
    LET q == a \div b
        r == a % b
    IN  IF 2 * r < b THEN q
        ELSE IF 2 * r > b THEN q + 1
        ELSE IF q % 2 = 0 THEN q ELSE q + 1

AllColumns == UNION {Range(PERSONA_PROMPTS[p].columns) : p \in DOMAIN PERSONA_PROMPTS}

PersonaOfColumn(c) ==
    CHOOSE p \in DOMAIN PERSONA_PROMPTS : c \in Range(PERSONA_PROMPTS[p].columns)

\* the percentage of the posts scored neutral or better, in tenths of a percent
NeutralOrBetter(all_scores, c, n) ==
    LET p == PersonaOfColumn(c)
        counted == {j \in 1..n : all_scores[p][j][c] >= NEUTRAL_SCORE}
    IN  IF n = 0 THEN 0 ELSE RoundDiv(Cardinality(counted) * 1000, n)

\* the top-2-box percentage of a column, in tenths of a percent
Top2Box(all_scores, c, n) ==
    LET p == PersonaOfColumn(c)
        high == {j \in 1..n : all_scores[p][j][c] >= HIGH_SCORE}
    IN  IF n = 0 THEN 0 ELSE RoundDiv(Cardinality(high) * 1000, n)

\* a worker that makes one scoring call per post instead of one per persona
\* and post, and keeps the neutral scores
score_once_per_post(company, posts, llms) ==
    IF Len(posts) < MIN_POSTS_FOR_ANALYSIS
    THEN Did(Returned([company |-> company,
                       post_count |-> Len(posts),
                       error |-> <<"Too few posts in this period", Len(posts),
                                   MIN_POSTS_FOR_ANALYSIS>>]), 0)
    ELSE LET all_scores == [p \in DOMAIN PERSONA_PROMPTS |->
                              [j \in DOMAIN posts |->
                                  analyze_individual_post(posts[j], p, Raise)]] IN
         Did(Returned([company |-> company,
                       post_count |-> Len(posts),
                       individual_posts |->
                           [j \in DOMAIN posts |->
                               [post_content |-> posts[j],
                                scores |-> [p \in DOMAIN PERSONA_PROMPTS |-> all_scores[p][j]]]],
                       top2box |-> [c \in AllColumns |-> Top2Box(all_scores, c, Len(posts))]]),
             Len(posts))

\* analyze_company_affinity((company_name, posts)), given the outcomes of the
\* LLM calls it makes
analyze_company_affinity(company, posts, llms) ==
    IF Len(posts) < MIN_POSTS_FOR_ANALYSIS
    THEN Did(Returned([company |-> company,
                       post_count |-> Len(posts),
                       error |-> <<"Too few posts in this period", Len(posts),
                                   MIN_POSTS_FOR_ANALYSIS>>]), 0)
    ELSE LET all_scores == AllPostScores(posts, llms) IN
         Did(Returned([company |-> company,
                       post_count |-> Len(posts),
                       individual_posts |->
                           [j \in DOMAIN posts |->
                               [post_content |-> posts[j],
                                scores |-> [p \in DOMAIN PERSONA_PROMPTS |-> all_scores[p][j]]]],
                       top2box |-> [c \in AllColumns |-> Top2Box(all_scores, c, Len(posts))]]),
             Len(PERSONA_PROMPTS) * Len(posts))

\* the outcomes of the scoring calls of one affinity worker, in call order
AffinityRuns(n) ==
    LET calls == Len(PERSONA_PROMPTS) * n IN
    {[k \in 1..calls |-> AffinityReply(PersonaOfCall(k, n), "2")]} \cup
    UNION { {[k \in 1..calls |->
                IF k = j THEN o ELSE AffinityReply(PersonaOfCall(k, n), "2")]
             : o \in {Raise, AffinityReply(PersonaOfCall(j, n), "6")}}
           : j \in {1, calls} }

\* how often the worker executes analyze_individual_post.debug_count += 1 (or
\* sets it to 1): once per scoring call that returned
debug_increments(posts, llms) ==
    IF Len(posts) < MIN_POSTS_FOR_ANALYSIS THEN 0
    ELSE Cardinality({k \in DOMAIN llms : llms[k].kind = "reply"})

\* the debug lines are logged while debug_count <= 3
DEBUG_LOG_LIMIT == 3

\* The counter is only ever compared with DEBUG_LOG_LIMIT: every value above
\* the limit is kept as DEBUG_LOG_LIMIT + 1
Saturate(n) == Min(n, DEBUG_LOG_LIMIT + 1)

\* The attribute after k unsynchronised read-increment-write sequences of one
\* worker that ran while the other workers brought it to `current`: updates
\* of either side can be lost
RaceOutcomes(current, k) ==
    IF k = 0 THEN {current}
    ELSE IF current = 0 THEN {Saturate(k)}
    ELSE {Saturate(v) : v \in (IF current = 1 \/ k = 1 THEN 1 ELSE 2) .. (current + k)}

\* affinity worker thread: analyze_company_affinity(data)
AnalyzeCompanyAffinity(i) ==
    /\ pipeline = "audience_affinity"
    /\ fut[i].state = "running"
    /\ \E llms \in AffinityRuns(Len(entities[i].posts)) :
          /\ Finish(i, analyze_company_affinity(entities[i].company, entities[i].posts, llms))
          /\ debug_count' \in RaceOutcomes(debug_count,
                                           debug_increments(entities[i].posts, llms))
    /\ UNCHANGED <<pipeline, entities, pc, attempt, waits, yielded, acc, out>>

\* create_summary_dataframe(company_results): one row per valid result, in
\* list order, with the mean percentage of each persona's dimensions
create_summary_dataframe(company_results) ==
    LET valid == SelectSeq(company_results, IsValidResult) IN
    [k \in DOMAIN valid |->
        [Brand |-> valid[k].company,
         High |-> [p \in DOMAIN PERSONA_PROMPTS |->
                     LET c == PERSONA_PROMPTS[p].columns IN
                     RoundDiv(valid[k].top2box[c[1]] + valid[k].top2box[c[2]]
                              + valid[k].top2box[c[3]], 3)],
         top2box |-> valid[k].top2box]]

\* The end of analyze_audience_affinity_for_month: the summary table, the GPT
\* summary (one more LLM call, "Error generating summary" if it raises) and
\* the output
FinishAffinity ==
    /\ pipeline = "audience_affinity"
    /\ pc = "collect"
    /\ Len(yielded) = NumTasks
    /\ \E llm \in {Raise, Reply(<<"summary">>)} :
          out' = [status |-> "returned",
                  company_results |-> acc.company_results,
                  summary_df |-> create_summary_dataframe(acc.company_results),
                  gpt_summary |-> IF llm.kind = "raise" THEN <<"Error generating summary">>
                                  ELSE llm.text,
                  Skipped |-> skipped_sheet(acc.company_results, "post_count")]
    /\ pc' = "done"
    /\ UNCHANGED <<debug_count, pipeline, entities, fut, llm_calls, attempt, waits, yielded, acc>>

-----------------------------------------------------------------------------
(* Key advantages: worker and dispatcher *)

None == [t |-> "None"]

\* Response texts of the JSON-mode calls: text that is not JSON, the
\* text of a JSON object, or the text of a JSON array
NotJSON == [json |-> FALSE]
JSON(data) == [json |-> TRUE, type |-> "object", data |-> data]
JSONArray(data) == [json |-> TRUE, type |-> "array", data |-> data]

\* json.loads(raw)
json_loads(raw) ==
    IF raw.json THEN [raised |-> FALSE, type |-> raw.type, value |-> raw.data]
    ELSE [raised |-> TRUE]

\* d.get(key, default)
Get(d, key, default) == IF key \in DOMAIN d THEN d[key] ELSE default

Example(ad_index, quote) == [ad_index |-> ad_index, quote |-> quote]

Advantage(title, category, evidence, examples) ==
    [title |-> title, category |-> category, evidence |-> evidence, examples |-> examples]

AdvPrice ==
    Advantage("Low prices", "Price", <<"e1", "e2">>,
              <<Example(1, "q1"), Example(3, "q3")>>)
AdvService == Advantage("Service", "Experience", <<"e3">>, <<>>)
\* an advantage that cites an ad that AdvPrice cites too
AdvValue == Advantage("Value", "Price", <<"e4">>, <<Example(1, "q1")>>)

KeyAdvantageOutcomes ==
    { Raise, Reply(NotJSON), Reply(JSONArray(<<>>)),
      Reply(JSON([company |-> "c", advantages |-> <<>>])),
      Reply(JSON([company |-> "c", advantages |-> <<AdvPrice>>])),
      Reply(JSON([company |-> "c", advantages |-> <<AdvService, AdvPrice>>])),
      Reply(JSON([company |-> "c", advantages |-> <<AdvPrice, AdvValue>>])) }

\* ex.get("ad_index") or ex.get("article_index") or ex.get("post_index")
example_index(ex) ==
    IF "ad_index" \in DOMAIN ex /\ ex.ad_index # 0
    THEN [t |-> "int", n |-> ex.ad_index] ELSE None

\* the rows of advantage number i: one per example, one row without example
\* when it has none
AdvantageRows(i, adv) ==
    LET examples == IF adv.examples = <<>> THEN << <<>> >> ELSE adv.examples IN
    [k \in DOMAIN examples |->
        [advantage_id |-> i,
         title |-> adv.title,
         category |-> adv.category,
         evidence_list |-> adv.evidence,
         example_index |-> example_index(examples[k]),
         example_quote |-> IF "quote" \in DOMAIN examples[k]
                           THEN [t |-> "str", s |-> examples[k].quote] ELSE None]]

RECURSIVE FlattenAdvantages(_, _)
FlattenAdvantages(advantages, i) ==
    IF i > Len(advantages) THEN <<>>
    ELSE AdvantageRows(i, advantages[i]) \o FlattenAdvantages(advantages, i + 1)

\* process_company without the minimum-ads check
process_company_ungated(company, group_df, llm) ==
    Did(Returned(<<company, <<>>, <<>>>>), 1)

\* process_company((company, group_df)), given the outcome of its LLM call:
\* the triple (company, rows, advantages)
process_company(company, group_df, llm) ==
    IF Len(group_df) < MIN_ADS_FOR_ANALYSIS
    THEN Did(Returned(<<company, <<>>, <<>>>>), 0)
    ELSE IF llm.kind = "raise"
    THEN Did(Returned(<<company, <<>>, <<>>>>), 1)
    ELSE LET loaded == json_loads(llm.text)
             data == IF loaded.raised THEN [company |-> company, advantages |-> <<>>]
                     ELSE loaded.value
             advantages == Get(data, "advantages", <<>>)
         IN  IF ~loaded.raised /\ loaded.type # "object"
             THEN Did(Returned(<<company, <<>>, <<>>>>), 1)
             ELSE Did(Returned(<<company, FlattenAdvantages(advantages, 1), advantages>>), 1)

\* key-advantages worker thread
ProcessCompany(i) ==
    /\ pipeline = "key_advantages"
    /\ fut[i].state = "running"
    /\ \E llm \in KeyAdvantageOutcomes :
          Finish(i, process_company(entities[i].company, entities[i].items, llm))
    /\ UNCHANGED <<debug_count, pipeline, entities, pc, attempt, waits, yielded, acc, out>>

\* The body of the collection loop of run_key_advantages_analysis for one
\* future (process_company returns on every path, so future.result() returns)
collect_key_advantages(a, f) ==
    IF f.value[2] # <<>>
    THEN [a EXCEPT !.company_results = Append(@, <<f.value[1], f.value[2]>>),
                   !.all_advantages = @ \o f.value[3]]
    ELSE [a EXCEPT !.skipped_companies = Append(@, f.value[1])]

CollectKeyAdvantages(i) ==
    /\ pipeline = "key_advantages"
    /\ CanYield(i)
    /\ yielded' = Append(yielded, i)
    /\ acc' = collect_key_advantages(acc, fut[i])
    /\ UNCHANGED <<debug_count, pipeline, entities, pc, fut, llm_calls, attempt, waits, out>>

\* len(df_processed[df_processed[company_col] == company])
AdCount(company) ==
    LET i == CHOOSE j \in Tasks : entities[j].company = company IN Len(entities[i].items)

\* The end of run_key_advantages_analysis: the workbook with a sheet per
\* company, the "Skipped Companies" sheet and the "Summary" sheet
FinishKeyAdvantages ==
    /\ pipeline = "key_advantages"
    /\ pc = "collect"
    /\ Len(yielded) = NumTasks
    /\ out' = [status |-> "returned",
               Sheets |-> acc.company_results,
               Skipped |-> [k \in DOMAIN acc.skipped_companies |->
                              [Company |-> acc.skipped_companies[k],
                               Count |-> AdCount(acc.skipped_companies[k]),
                               Reason |-> <<"Too few ads ", "(",
                                            NumStr(AdCount(acc.skipped_companies[k])),
                                            " < ", NumStr(MIN_ADS_FOR_ANALYSIS), ")">>]],
               Summary |-> [k \in DOMAIN acc.all_advantages |->
                              [advantage_id |-> k,
                               title |-> acc.all_advantages[k].title,
                               category |-> acc.all_advantages[k].category,
                               evidence_list |-> acc.all_advantages[k].evidence,
                               example_count |-> Len(acc.all_advantages[k].examples)]]]
    /\ pc' = "done"
    /\ UNCHANGED <<debug_count, pipeline, entities, fut, llm_calls, attempt, waits, yielded, acc>>

-----------------------------------------------------------------------------
(* Creativity: within-brand selection, cross-brand ranking, dispatcher *)

\* JSON values inside a response
PyInt(n) == [t |-> "int", n |-> n]
PyList(v) == [t |-> "list", v |-> v]

Digits == {"0", "1", "2", "3", "4", "5", "6", "7", "8", "9"}

RECURSIVE LStripMinus(_)
LStripMinus(s) == IF s # <<>> /\ Head(s) = "-" THEN LStripMinus(Tail(s)) ELSE s

\* str(i).strip().lstrip("-").isdigit() for a str i
IsDigitString(s) ==
    LET d == LStripMinus(Strip(s)) IN d # <<>> /\ \A k \in DOMAIN d : d[k] \in Digits

RECURSIVE Decimal(_)
Decimal(d) == IF d = <<>> THEN 0 ELSE 10 * Decimal(SubSeq(d, 1, Len(d) - 1)) + IntOf(d[Len(d)])

\* the entries of selected_topk that pass the isinstance/isdigit filter
IsIndexLike(x) == x.t = "int" \/ (x.t = "str" /\ IsDigitString(x.s))

\* int(i) of an entry that passed the filter; raises ValueError on a string
\* with more than one sign
IntRaises(x) ==
    x.t = "str" /\ Len(Strip(x.s)) - Len(LStripMinus(Strip(x.s))) > 1

IntValue(x) ==
    IF x.t = "int" THEN x.n
    ELSE LET st == Strip(x.s) IN
         IF Head(st) = "-" THEN 0 - Decimal(LStripMinus(st)) ELSE Decimal(st)

\* list(dict.fromkeys(selected)): unique, first occurrence kept
RECURSIVE Unique(_)
Unique(s) ==
    IF s = <<>> THEN <<>>
    ELSE LET init == Unique(SubSeq(s, 1, Len(s) - 1)) IN
         IF s[Len(s)] \in Range(init) THEN init ELSE Append(init, s[Len(s)])

\* chat_json(messages), given the outcome of the LLM call: the decoded
\* response, the fallback structure when it does not decode
chat_json(llm) ==
    IF llm.kind = "raise" THEN [raised |-> TRUE]
    ELSE LET loaded == json_loads(llm.text) IN
         IF loaded.raised
         THEN [raised |-> FALSE, type |-> "object", value |-> [rankings |-> PyList(<<>>)]]
         ELSE loaded

\* One attempt of select_topk_within_brand(item_list, top_k, brand,
\* media_type), given the outcome of the LLM call
select_topk_within_brand(item_list, top_k, llm) ==
    LET data == chat_json(llm) IN
    IF data.raised \/ data.type # "object" THEN [raised |-> TRUE]
    ELSE LET got == Get(data.value, "selected_topk", PyList(<<>>))
             selected == IF got.t = "list" THEN got.v ELSE <<>>
             kept == SelectSeq(selected, IsIndexLike)
             gotd == Get(data.value, "selected_details", PyList(<<>>))
         IN  IF \E k \in DOMAIN kept : IntRaises(kept[k]) THEN [raised |-> TRUE]
             ELSE LET ints == Unique([k \in DOMAIN kept |-> IntValue(kept[k])]) IN
                  [raised |-> FALSE,
                   value |-> [selected_topk |-> SubSeq(ints, 1, Min(top_k, Len(ints))),
                              selected_details |-> IF gotd.t = "list" THEN gotd.v ELSE <<>>,
                              notes_overall |-> Get(data.value, "notes_overall", "")]]

\* the items as select_topk_within_brand sends them: item i tagged idx = i
compact_items(item_list) ==
    [k \in DOMAIN item_list |->
        [idx |-> k - 1, reach |-> item_list[k].reach, text |-> item_list[k].text]]

\* a row for every selected index, taken as a position counted from either end
BrandRowsWrapping(brand, g, selected) ==
    [k \in DOMAIN selected |->
        [brand |-> brand, reach |-> g[(selected[k] % Len(g)) + 1].reach,
         text |-> g[(selected[k] % Len(g)) + 1].text]]

\* the rows of process_brand for the selected indices that are in range
RECURSIVE BrandRows(_, _, _)
BrandRows(brand, g, selected) ==
    IF selected = <<>> THEN <<>>
    ELSE LET idx == Head(selected) IN
         (IF 0 <= idx /\ idx < Len(g)
          THEN <<[brand |-> brand, reach |-> g[idx + 1].reach, text |-> g[idx + 1].text]>>
          ELSE <<>>) \o BrandRows(brand, g, Tail(selected))

\* process_brand when select_topk_within_brand returned sel
brand_selected(brand, g, sel) ==
    [brand |-> brand, selection |-> sel, rows |-> BrandRows(brand, g, sel.selected_topk),
     skipped |-> FALSE]

\* process_brand below the minimum
brand_too_few(brand, g) ==
    [brand |-> brand, skipped |-> TRUE,
     reason |-> <<"too few ads ", "(", NumStr(Len(g)), " < ",
                  NumStr(MIN_ADS_FOR_ANALYSIS), ")">>]

\* the except branch of process_brand
brand_error(brand) ==
    [brand |-> brand, skipped |-> TRUE, reason |-> <<"error: ", "RetryError">>]

TopkOutcomes ==
    { Raise, Reply(NotJSON), Reply(JSONArray(<<>>)),
      Reply(JSON([selected_topk |-> PyList(<<PyInt(0), PyInt(2)>>),
                  selected_details |-> PyList(<<>>)])),
      Reply(JSON([selected_topk |-> PyList(<<PyInt(1), Str(<<"1">>), PyInt(9),
                                             Str(<<"-", "1">>)>>)])),
      Reply(JSON([selected_topk |-> PyList(<<PyInt(4), PyInt(3), PyInt(2), PyInt(1),
                                             PyInt(0), PyInt(5)>>)])) }

\* creativity worker thread: process_brand((brand, g)); below the minimum it
\* returns at once, otherwise each step is one attempt of the retrying
\* select_topk_within_brand
ProcessBrand(i) ==
    LET brand == entities[i].company
        g == entities[i].items
        n == attempt[i] + 1
    IN
    /\ pipeline = "creativity"
    /\ fut[i].state = "running"
    /\ IF Len(g) < MIN_ADS_FOR_ANALYSIS
       THEN /\ Finish(i, Did(Returned(brand_too_few(brand, g)), 0))
            /\ UNCHANGED <<attempt, waits>>
       ELSE \E llm \in TopkOutcomes :
            LET sel == select_topk_within_brand(g, Min(TOP_K_PER_BRAND, Len(g)), llm) IN
            /\ attempt' = [attempt EXCEPT ![i] = n]
            /\ llm_calls' = [llm_calls EXCEPT ![i] = @ + 1]
            /\ IF ~sel.raised
               THEN /\ fut' = [fut EXCEPT ![i] = Returned(brand_selected(brand, g, sel.value))]
                    /\ UNCHANGED waits
               ELSE IF stop_after_attempt(n, TOPK_STOP_AFTER_ATTEMPT)
               THEN /\ fut' = [fut EXCEPT ![i] = Returned(brand_error(brand))]
                    /\ UNCHANGED waits
               ELSE /\ waits' = [waits EXCEPT ![i] =
                                   Append(@, wait_exponential(n, TOPK_WAIT_MIN, TOPK_WAIT_MAX))]
                    /\ UNCHANGED fut
    /\ UNCHANGED <<debug_count, pipeline, entities, pc, yielded, acc, out>>

\* The body of the collection loop of run_creativity_analysis for one future
collect_brand(a, result) ==
    IF result.skipped
    THEN [a EXCEPT !.skipped_brands =
                      Append(@, <<result.brand, " ", "(">> \o result.reason \o <<")">>)]
    ELSE [a EXCEPT !.selections = Append(@, [brand |-> result.brand] @@ result.selection),
                   !.per_brand_topk_rows = @ \o result.rows]

CollectBrand(i) ==
    /\ pipeline = "creativity"
    /\ CanYield(i)
    /\ yielded' = Append(yielded, i)
    /\ acc' = collect_brand(acc, fut[i].value)
    /\ UNCHANGED <<debug_count, pipeline, entities, pc, fut, llm_calls, attempt, waits, out>>

\* s.split(c)[k] for a one-character separator c
RECURSIVE SplitPart(_, _, _)
SplitPart(s, c, k) ==
    LET at == Find(s, c) IN
    IF k = 0 THEN (IF at = 0 THEN s ELSE SubSeq(s, 1, at - 1))
    ELSE SplitPart(SubSeq(s, at + 1, Len(s)), c, k - 1)

\* s.rstrip(c)
RECURSIVE RStripChar(_, _)
RStripChar(s, c) ==
    IF s # <<>> /\ s[Len(s)] = c THEN RStripChar(SubSeq(s, 1, Len(s) - 1), c) ELSE s

\* s.split(" (")[0]
RECURSIVE BeforeSpaceParen(_)
BeforeSpaceParen(s) ==
    IF Len(s) < 2 THEN s
    ELSE IF s[1] = " " /\ s[2] = "(" THEN <<>>
    ELSE <<Head(s)>> \o BeforeSpaceParen(Tail(s))

\* the "Skipped Brands" sheet
skipped_brands_sheet(skipped_brands) ==
    [k \in DOMAIN skipped_brands |->
        [Brand |-> BeforeSpaceParen(skipped_brands[k]),
         Reason |-> <<"Too few ads ", "(">>
                    \o RStripChar(SplitPart(skipped_brands[k], "(", 1), ")")
                    \o <<" < ", NumStr(MIN_ADS_FOR_ANALYSIS), ")">>]]

\* sorted(topk_df[brand_column].unique())
SortedBrands(rows) ==
    LET present == {rows[k].brand : k \in DOMAIN rows}
        F[k \in 0..Len(BrandNames)] ==
            IF k = 0 THEN <<>>
            ELSE IF BrandNames[k] \in present THEN Append(F[k - 1], BrandNames[k])
            ELSE F[k - 1]
    IN  F[Len(BrandNames)]

FALLBACK_SCORE == 50

\* the fallback ranking: neutral scores (5.0, in tenths), alphabetical
fallback_rankings(rows) ==
    LET brands == SortedBrands(rows) IN
    [k \in DOMAIN brands |->
        [brand |-> brands[k], rank |-> k, originality_score |-> FALLBACK_SCORE,
         justification |-> "Fallback due to ranking error", examples |-> <<>>]]

RankingFields == {"brand", "rank", "originality_score", "justification"}

\* The rankings that run_creativity_analysis uses, given what the retrying
\* rank_brands_cross_brand did (cross: [raised] or the decoded response)
validated_rankings(cross, rows) ==
    IF cross.raised \/ cross.type # "object" THEN fallback_rankings(rows)
    ELSE LET got == Get(cross.value, "rankings", PyList(<<>>)) IN
         IF got.t # "list" \/ got.v = <<>> THEN fallback_rankings(rows)
         ELSE IF \E k \in DOMAIN got.v : ~(RankingFields \subseteq DOMAIN got.v[k])
         THEN fallback_rankings(rows)
         ELSE got.v

\* pd.DataFrame(rankings).sort_values("rank")
sort_by_rank(rankings) ==
    LET sorted == SortByIndex([k \in DOMAIN rankings |-> <<rankings[k].rank, rankings[k]>>])
    IN  [k \in DOMAIN sorted |-> sorted[k][2]]

RankEntry(brand, rank) ==
    [brand |-> brand, rank |-> rank, originality_score |-> 70 + rank,
     justification |-> "j", examples |-> <<"x">>]

\* Responses to the cross-brand prompt for the brands of `selections`: a
\* ranking in reverse order, a ranking of the first brand only, a ranking
\* with an incomplete entry, an empty ranking, text that is not JSON (or not
\* an object)
RankReplies(selections) ==
    LET n == Len(selections) IN
    { Reply(JSON([rankings |-> PyList([k \in 1..n |->
                                  RankEntry(selections[k].brand, n + 1 - k)])])),
      Reply(JSON([rankings |-> PyList([k \in 1..Min(1, n) |->
                                  RankEntry(selections[k].brand, k)])])),
      Reply(JSON([rankings |-> PyList(<<[brand |-> "Acme", rank |-> 1]>>)])),
      Reply(JSON([rankings |-> PyList(<<>>)])),
      Reply(NotJSON), Reply(JSONArray(<<>>)) }

\* What the retrying rank_brands_cross_brand does: it returns the decoded
\* response of the first attempt that does not raise, after `failed` raising
\* attempts; RetryError after TOPK_STOP_AFTER_ATTEMPT raising attempts
RankRuns(selections) ==
    {[failed |-> TOPK_STOP_AFTER_ATTEMPT, calls |-> TOPK_STOP_AFTER_ATTEMPT,
      cross |-> [raised |-> TRUE]]} \cup
    {[failed |-> f, calls |-> f + 1, cross |-> chat_json(r)]
        : f \in {0, TOPK_STOP_AFTER_ATTEMPT - 1}, r \in RankReplies(selections)}

\* rows of one brand's sheet: g.sort_values(reach, ascending=False)
BrandSheet(rows, brand) ==
    LET mine == SelectSeq(rows, LAMBDA r : r.brand = brand)
        sorted == SortByIndex([k \in DOMAIN mine |-> <<0 - mine[k].reach, mine[k]>>])
    IN  [k \in DOMAIN sorted |-> sorted[k][2]]

\* The part of run_creativity_analysis after the collection loop: it raises
\* RuntimeError when no row was selected; otherwise it ranks the brands and
\* writes the workbook
FinishCreativity ==
    /\ pipeline = "creativity"
    /\ pc = "collect"
    /\ Len(yielded) = NumTasks
    /\ IF acc.per_brand_topk_rows = <<>>
       THEN out' = [status |-> "raised", error |-> "RuntimeError"]
       ELSE \E run \in RankRuns(acc.selections) :
            out' = [status |-> "returned",
                    rank_calls |-> run.calls,
                    Ranking |-> sort_by_rank(validated_rankings(run.cross,
                                                                acc.per_brand_topk_rows)),
                    Sheets |-> [k \in DOMAIN SortedBrands(acc.per_brand_topk_rows) |->
                                  BrandSheet(acc.per_brand_topk_rows,
                                             SortedBrands(acc.per_brand_topk_rows)[k])],
                    Skipped |-> skipped_brands_sheet(acc.skipped_brands),
                    Selections |-> acc.selections]
    /\ pc' = "done"
    /\ UNCHANGED <<debug_count, pipeline, entities, fut, llm_calls, attempt, waits, yielded, acc>>

-----------------------------------------------------------------------------
(* Inputs and initial states *)

\* the rows of df[text_column], numbered by enumerate
RowEntities ==
    UNION { { [k \in 1..n |-> [idx |-> k - 1, text |-> f[k]]] : f \in [1..n -> TextValues] }
            : n \in 1..MaxRows }

GroupSizes == {MIN_ADS_FOR_ANALYSIS - 1, MIN_ADS_FOR_ANALYSIS}

\* a company's PR contents
PRGroups ==
    UNION { { [contents |-> c] : c \in Vary(n, Str(<<"p", "r">>), TextValues, {1, n}) }
            : n \in GroupSizes }

Letters == <<"a", "b", "c", "d", "e", "f", "g", "h">>

\* a company's posts
AffinityGroups ==
    { [posts |-> [j \in 1..n |-> Str(<<Letters[j]>>)]]
      : n \in {MIN_POSTS_FOR_ANALYSIS - 1, MIN_POSTS_FOR_ANALYSIS} }

\* a company's ads
ItemGroups ==
    { [items |-> [j \in 1..n |-> Str(<<Letters[j]>>)]] : n \in GroupSizes }

\* a brand's items, by descending reach
CreativityGroups ==
    { [items |-> [j \in 1..n |-> [text |-> Str(<<Letters[j]>>), reach |-> 10 * (n + 1 - j)]]]
      : n \in GroupSizes }

\* n groups in groupby (sorted key) order
GroupEntities(groups) ==
    UNION { { [k \in 1..n |-> [company |-> BrandNames[k]] @@ g[k]] : g \in [1..n -> groups] }
            : n \in 1..MaxGroups }

EntitiesOf(p) ==
    CASE p \in ComposPipelines -> RowEntities
      [] p = "pr_compos" -> GroupEntities(PRGroups)
      [] p = "audience_affinity" -> GroupEntities(AffinityGroups)
      [] p = "key_advantages" -> GroupEntities(ItemGroups)
      [] p = "creativity" -> GroupEntities(CreativityGroups)

InitAcc(p) ==
    CASE p \in ComposPipelines -> [results |-> <<>>]
      [] p \in {"pr_compos", "audience_affinity"} -> [company_results |-> <<>>]
      [] p = "key_advantages" -> [all_advantages |-> <<>>, company_results |-> <<>>,
                                  skipped_companies |-> <<>>]
      [] p = "creativity" -> [selections |-> <<>>, per_brand_topk_rows |-> <<>>,
                              skipped_brands |-> <<>>]

InitFor(P) ==
    /\ pipeline \in P
    /\ entities \in EntitiesOf(pipeline)
    /\ pc = "submit"
    /\ fut = [i \in DOMAIN entities |-> Unsubmitted]
    /\ llm_calls = [i \in DOMAIN entities |-> 0]
    /\ attempt = [i \in DOMAIN entities |-> 0]
    /\ waits = [i \in DOMAIN entities |-> <<>>]
    /\ yielded = <<>>
    /\ acc = InitAcc(pipeline)
    /\ out = [status |-> "running"]
    /\ debug_count = 0

InitCompos == InitFor(ComposPipelines)

NextCompos ==
    \/ Submit
    \/ \E i \in Tasks : StartTask(i)
    \/ \E i \in Tasks : AssignArchetypeAds(i)
    \/ \E i \in Tasks : AssignArchetypeSocialMedia(i)
    \/ \E i \in Tasks : CollectCompos(i)
    \/ FinishCompos

SpecCompos == InitCompos /\ [][NextCompos]_vars

InitPR == InitFor({"pr_compos"})

NextPR ==
    \/ Submit
    \/ \E i \in Tasks : StartTask(i)
    \/ \E i \in Tasks : AnalyzeCompanyArchetypes(i)
    \/ \E i \in Tasks : CollectCompany(i)
    \/ FinishPR

SpecPR == InitPR /\ [][NextPR]_vars

InitAffinity == InitFor({"audience_affinity"})

NextAffinity ==
    \/ Submit
    \/ \E i \in Tasks : StartTask(i)
    \/ \E i \in Tasks : AnalyzeCompanyAffinity(i)
    \/ \E i \in Tasks : CollectCompany(i)
    \/ FinishAffinity

SpecAffinity == InitAffinity /\ [][NextAffinity]_vars

InitKeyAdvantages == InitFor({"key_advantages"})

NextKeyAdvantages ==
    \/ Submit
    \/ \E i \in Tasks : StartTask(i)
    \/ \E i \in Tasks : ProcessCompany(i)
    \/ \E i \in Tasks : CollectKeyAdvantages(i)
    \/ FinishKeyAdvantages

SpecKeyAdvantages == InitKeyAdvantages /\ [][NextKeyAdvantages]_vars

InitCreativity == InitFor({"creativity"})

NextCreativity ==
    \/ Submit
    \/ \E i \in Tasks : StartTask(i)
    \/ \E i \in Tasks : ProcessBrand(i)
    \/ \E i \in Tasks : CollectBrand(i)
    \/ FinishCreativity

SpecCreativity == InitCreativity /\ [][NextCreativity]_vars

\* the dispatchers over groups with a minimum-volume gate
GatedPipelines == {"key_advantages", "creativity", "audience_affinity"}

InitGrouped == InitFor(GatedPipelines)

NextGrouped ==
    \/ Submit
    \/ \E i \in Tasks : StartTask(i)
    \/ \E i \in Tasks : ProcessCompany(i)
    \/ \E i \in Tasks : CollectKeyAdvantages(i)
    \/ FinishKeyAdvantages
    \/ \E i \in Tasks : ProcessBrand(i)
    \/ \E i \in Tasks : CollectBrand(i)
    \/ FinishCreativity
    \/ \E i \in Tasks : AnalyzeCompanyAffinity(i)
    \/ \E i \in Tasks : CollectCompany(i)
    \/ FinishAffinity

SpecGrouped == InitGrouped /\ [][NextGrouped]_vars

AllPipelines ==
    {"ads_compos", "sm_compos", "pr_compos", "audience_affinity", "key_advantages",
     "creativity"}

Init == InitFor(AllPipelines)

Next ==
    \/ NextCompos
    \/ \E i \in Tasks : AnalyzeCompanyArchetypes(i)
    \/ FinishPR
    \/ NextGrouped

Spec == Init /\ [][Next]_vars

-----------------------------------------------------------------------------
(* Properties *)

Done == pc = "done"

\* C1: when run_compos_analysis (ads, social media) has collected the futures
\* of a frame of n rows, results holds exactly n (index, label) pairs, one for
\* each row index 0..n-1, whether the workers returned or raised, and the
\* output frame has n rows with a 'Top Archetype' value each.
C1_TotalCoverage ==
    (pipeline \in ComposPipelines /\ Done) =>
        /\ Len(acc.results) = NumTasks
        /\ \A idx \in 0..(NumTasks - 1) :
              Cardinality({k \in DOMAIN acc.results : acc.results[k][1] = idx}) = 1
        /\ out.status = "returned"
        /\ Len(out.TopArchetype) = NumTasks

\* C1 witness: a finished run of two or more rows in which one worker raised
\* and another returned
C1_Witness ==
    /\ pipeline \in ComposPipelines /\ Done
    /\ NumTasks >= 2
    /\ \E i, j \in Tasks : fut[i].raised /\ ~fut[j].raised

\* the label written for task i: the worker's, or "Error" for a raised future
\* (dispatcher lines 100-103)
ExpectedLabel(i) == IF fut[i].raised THEN ErrorLabel ELSE fut[i].value[2]

\* C2: whatever the order in which the futures completed, the label in output
\* row i is the one the worker produced for input row i.
C2_OrderRestored ==
    (pipeline \in ComposPipelines /\ Done) =>
        \A i \in Tasks : out.TopArchetype[entities[i].idx + 1] = ExpectedLabel(i)

\* C2 witness: a finished run whose futures were collected out of submission
\* order, with different labels for the rows involved
C2_Witness ==
    /\ pipeline \in ComposPipelines /\ Done
    /\ \E a, b \in DOMAIN yielded :
          /\ a < b /\ yielded[a] > yielded[b]
          /\ ExpectedLabel(yielded[a]) # ExpectedLabel(yielded[b])
          /\ ~fut[yielded[a]].raised /\ ~fut[yielded[b]].raised

\* C9 (as claimed): the social media worker labels an item 'Error' only after
\* all SM_STOP_AFTER_ATTEMPT attempts at the LLM call have failed.
C9_ErrorOnlyAfterAllAttempts ==
    \A i \in Tasks :
        (/\ pipeline = "sm_compos"
         /\ fut[i].state = "finished" /\ ~fut[i].raised
         /\ fut[i].value[2] = ErrorLabel)
        => llm_calls[i] = SM_STOP_AFTER_ATTEMPT

\* number of items of group i
GroupSize(i) ==
    IF pipeline = "audience_affinity" THEN Len(entities[i].posts)
    ELSE IF pipeline = "pr_compos" THEN Len(entities[i].contents)
    ELSE Len(entities[i].items)

EntriesOf(company) ==
    {k \in DOMAIN acc.company_results : acc.company_results[k].company = company}

\* C3 (as claimed): when the PR dispatcher is done, every company group
\* submitted to the pool has exactly one entry in company_results, whether
\* its worker returned or raised.
C3_EveryCompanyHasOneEntry ==
    (pipeline = "pr_compos" /\ Done) =>
        \A i \in Tasks : Cardinality(EntriesOf(entities[i].company)) = 1

\* company_results when the futures complete in submission order
RECURSIVE InOrderCompanyResults(_)
InOrderCompanyResults(k) ==
    IF k = 0 THEN <<>> ELSE collect_company(InOrderCompanyResults(k - 1), fut[k])

RECURSIVE InOrderKeyAdvantages(_)
InOrderKeyAdvantages(k) ==
    IF k = 0 THEN InitAcc("key_advantages")
    ELSE collect_key_advantages(InOrderKeyAdvantages(k - 1), fut[k])

\* C4 (as claimed): with the same input and worker results, the aggregated
\* tables of the grouped dispatchers are the same for every completion
\* order; so they are the tables of the run in which the workers complete in
\* submission order.
C4_OrderIndependentOfCompletion ==
    Done =>
        /\ pipeline = "pr_compos" =>
              out.Summary = create_archetype_summary(InOrderCompanyResults(NumTasks))
        /\ pipeline = "audience_affinity" =>
              out.summary_df = create_summary_dataframe(InOrderCompanyResults(NumTasks))
        /\ pipeline = "key_advantages" =>
              \A k \in DOMAIN out.Summary :
                  out.Summary[k].title = InOrderKeyAdvantages(NumTasks).all_advantages[k].title

\* group i's LLM call failed (after its retries)
CallFailed(i) ==
    /\ fut[i].state = "finished"
    /\ llm_calls[i] > 0
    /\ IF pipeline = "creativity" THEN fut[i].value.skipped ELSE fut[i].value[2] = <<>>

\* group i was skipped for volume, or its worker succeeded
SkippedOrSucceeded(i) ==
    /\ fut[i].state = "finished"
    /\ \/ llm_calls[i] = 0
       \/ IF pipeline = "creativity" THEN ~fut[i].value.skipped ELSE fut[i].value[2] # <<>>

\* C5 (as claimed): in the key-advantages and creativity dispatchers, when
\* one group's LLM call fails while the other groups are skipped or succeed,
\* every group is still collected and the function returns an output.
C5_OneFailureNeverAborts ==
    (/\ pipeline \in {"key_advantages", "creativity"}
     /\ Done
     /\ \E i \in Tasks : CallFailed(i) /\ \A j \in Tasks \ {i} : SkippedOrSucceeded(j))
    => (Len(yielded) = NumTasks /\ out.status = "returned")

MinimumOf(p) ==
    IF p = "audience_affinity" THEN MIN_POSTS_FOR_ANALYSIS ELSE MIN_ADS_FOR_ANALYSIS

\* the result of a worker that skipped its group for volume
IsSkipResult(v) ==
    CASE pipeline = "key_advantages" -> v[2] = <<>> /\ v[3] = <<>>
      [] pipeline = "audience_affinity" ->
            "error" \in DOMAIN v /\ v.error[1] = "Too few posts in this period"
      [] pipeline = "creativity" -> v.skipped /\ v.reason[1] = "too few ads "

\* C6: a group worker (process_company, analyze_company_affinity,
\* process_brand) whose group is below the configured minimum returns a skip
\* result and has made no LLM call.
C6_BelowMinimumSkipsWithoutCalls ==
    \A i \in Tasks :
        (/\ pipeline \in GatedPipelines
         /\ fut[i].state = "finished"
         /\ GroupSize(i) < MinimumOf(pipeline))
        => (~fut[i].raised /\ IsSkipResult(fut[i].value) /\ llm_calls[i] = 0)

C6_Witness ==
    /\ pipeline \in GatedPipelines
    /\ Done
    /\ \E i, j \in Tasks :
          /\ GroupSize(i) < MinimumOf(pipeline)
          /\ IsSkipResult(fut[i].value)
          /\ GroupSize(j) >= MinimumOf(pipeline)
          /\ llm_calls[j] > 0

\* the company named by a row of a skipped sheet
SkippedName(row) == IF pipeline = "creativity" THEN row.Brand[1] ELSE row.Company

\* C7 (as claimed): in the key-advantages and creativity workbooks a group
\* is listed with a "too few ads" reason only if its item count is below the
\* minimum.
C7_TooFewAdsOnlyBelowMinimum ==
    (pipeline \in {"key_advantages", "creativity"} /\ Done /\ out.status = "returned") =>
        \A k \in DOMAIN out.Skipped :
            out.Skipped[k].Reason[1] = "Too few ads "
                => AdCount(SkippedName(out.Skipped[k])) < MIN_ADS_FOR_ANALYSIS

\* the step makes an attempt of select_topk_within_brand for brand i
Attempts(i) == attempt'[i] # attempt[i]

\* C8: every attempt of select_topk_within_brand is one of at most 5 of a
\* running worker; an attempt that succeeds ends the worker with its
\* selection, a failing attempt before the fifth is followed by a positive
\* wait, and the fifth failing attempt ends the worker with an error result:
\* the future never holds an exception.
C8_BoundedRetryThenErrorResult ==
    [][\A i \in Tasks : (pipeline = "creativity" /\ Attempts(i)) =>
          /\ fut[i].state = "running"
          /\ attempt'[i] = attempt[i] + 1
          /\ attempt'[i] <= TOPK_STOP_AFTER_ATTEMPT
          /\ llm_calls'[i] = attempt'[i]
          /\ fut'[i].state = "finished" =>
                /\ ~fut'[i].raised
                /\ waits'[i] = waits[i]
                /\ fut'[i].value.skipped =>
                      /\ attempt'[i] = TOPK_STOP_AFTER_ATTEMPT
                      /\ fut'[i].value.reason[1] = "error: "
          /\ fut'[i].state # "finished" =>
                /\ fut'[i].state = "running"
                /\ attempt'[i] < TOPK_STOP_AFTER_ATTEMPT
                /\ Len(waits'[i]) = attempt'[i]
                /\ waits'[i][attempt'[i]] >= TOPK_WAIT_MIN
                /\ waits'[i][attempt'[i]] <= TOPK_WAIT_MAX]_vars

C8_Witness ==
    /\ pipeline = "creativity"
    /\ \E i, j \in Tasks :
          /\ fut[i].state = "finished"
          /\ attempt[i] = TOPK_STOP_AFTER_ATTEMPT
          /\ fut[i].value.skipped
          /\ waits[i] = <<1, 2, 4, 8>>
          /\ fut[j].state = "finished"
          /\ attempt[j] = 2
          /\ ~fut[j].value.skipped

\* the cell holds no usable text: empty, whitespace only, NaN or "nan"
IsMissingText(x) ==
    \/ x = NaN
    \/ x.t = "str" /\ (Strip(x.s) = <<>> \/ x.s = <<"n", "a", "n">>)

UsableContents(i) ==
    {k \in DOMAIN entities[i].contents : ~IsMissingText(entities[i].contents[k])}

\* C10 (as claimed): an archetype worker given an item without usable text
\* (empty, whitespace only, NaN or the literal "nan") labels it "No Content"
\* and makes no LLM call for it, in the ads, social media and PR pipelines.
C10_MissingTextIsNoContent ==
    \A i \in Tasks : fut[i].state = "finished" =>
        /\ (pipeline \in ComposPipelines /\ IsMissingText(entities[i].text)) =>
              /\ ~fut[i].raised
              /\ fut[i].value[2] = NoContent
              /\ llm_calls[i] = 0
        /\ (pipeline = "pr_compos" /\ GroupSize(i) >= MIN_ADS_FOR_ANALYSIS) =>
              /\ ~fut[i].raised
              /\ llm_calls[i] <= Cardinality(UsableContents(i))
              /\ \A k \in DOMAIN entities[i].contents :
                    IsMissingText(entities[i].contents[k]) =>
                        fut[i].value.archetype_assignments[k].archetype = NoContent

-----------------------------------------------------------------------------
(* Single calls: one function of the program applied to one input *)

MaxReplyLen == 3

\* sequences over `alphabet` of length 1..n
SeqsUpTo(alphabet, n) == UNION {[1..k -> alphabet] : k \in 1..n}

\* A single call starts with its input in entities[1]
InitCall(name, inputs) ==
    /\ pipeline = name
    /\ entities \in {<<x>> : x \in inputs}
    /\ pc = "call"
    /\ fut = <<>>
    /\ llm_calls = <<>>
    /\ attempt = <<>>
    /\ waits = <<>>
    /\ yielded = <<>>
    /\ acc = <<>>
    /\ out = [status |-> "running"]
    /\ debug_count = 0

\* The call ended with `result`
Return(name, result) ==
    /\ pipeline = name
    /\ pc = "call"
    /\ out' = result
    /\ pc' = "done"
    /\ UNCHANGED <<debug_count, pipeline, entities, fut, llm_calls, attempt, waits, yielded, acc>>

ArchetypeTokens == {"Top Archetype", ":", " ", "The ", "Expert", "NL"}

\* an archetype worker and the response its LLM call gets for a usable text
ArchetypeCalls(n) ==
    { [worker |-> w, response |-> r]
      : w \in {"ads", "social_media", "pr"}, r \in SeqsUpTo(ArchetypeTokens, n) }

\* the label the worker returns for the response
archetype_of(worker, response) ==
    CASE worker = "ads" ->
            assign_archetype_ads(Str(<<"a", "d">>), 0, Reply(response)).result.value[2]
      [] worker = "social_media" ->
            assign_archetype_social_media(Str(<<"a", "d">>), 0, Reply(response)).result.value[2]
      [] worker = "pr" ->
            assign_archetype_to_content(Str(<<"a", "d">>), Reply(response)).label

CallArchetypeWorker ==
    Return("archetype_worker",
           [status |-> "returned",
            label |-> archetype_of(entities[1].worker, entities[1].response)])

InitArchetypeWorker == InitCall("archetype_worker", ArchetypeCalls(MaxReplyLen))

SpecArchetypeWorker == InitArchetypeWorker /\ [][CallArchetypeWorker]_vars

\* the line starts a "Top Archetype:" marker at k that is followed by a label
LabelAfter(line, k) ==
    /\ k + 1 <= Len(line)
    /\ line[k] = "Top Archetype"
    /\ line[k + 1] = ":"
    /\ Strip(SubSeq(line, k + 2, Len(line))) # <<>>

\* the response has a "Top Archetype:" line with a non-empty label
HasLabelledMarkerLine(response) ==
    \E j \in DOMAIN SplitLines(response) :
        \E k \in DOMAIN SplitLines(response)[j] : LabelAfter(SplitLines(response)[j], k)

\* C11 (as claimed): for a response without a "Top Archetype:" line that
\* carries a non-empty label, each archetype worker (ads, social media, PR)
\* returns the label "Parsing Error".
C11_UnlabelledResponseIsParsingError ==
    (pipeline = "archetype_worker" /\ pc = "done"
        /\ ~HasLabelledMarkerLine(entities[1].response))
    => out.label = ParsingError

-----------------------------------------------------------------------------
(* chat_json: decoding of the response text, character by character *)

\* The double quote character
DQ == "dq"

MaxJsonLen == 5

\* characters of the response texts (stripped, so without whitespace)
JsonChars == {"{", "}", "[", "]", DQ, ",", ":", "a"}

PyDict(items) == [t |-> "dict", items |-> items]

\* s[idx:idx+1] for a Python index idx; "" past the end
CharAt(s, idx) == IF idx + 1 \in DOMAIN s THEN s[idx + 1] ELSE ""

JsonError(msg, pos) == [ok |-> FALSE, msg |-> msg, pos |-> pos]
JsonValue(value, end) == [ok |-> TRUE, value |-> value, end |-> end]

\* scanstring(s, end): the string whose opening quote is at end - 1
scanstring(s, end) ==
    LET close == FindFrom(s, DQ, end + 1) IN
    IF close = 0 THEN JsonError("Unterminated string starting at", end - 1)
    ELSE JsonValue(Str(SubSeq(s, end + 1, close - 1)), close)

\* dict(pairs): a later pair of the same key replaces the value
RECURSIVE DictOf(_)
DictOf(pairs) ==
    IF pairs = <<>> THEN <<>>
    ELSE LET init == DictOf(SubSeq(pairs, 1, Len(pairs) - 1))
             last == pairs[Len(pairs)]
         IN  IF \E k \in DOMAIN init : init[k][1] = last[1]
             THEN [k \in DOMAIN init |-> IF init[k][1] = last[1] THEN last ELSE init[k]]
             ELSE Append(init, last)

RECURSIVE scan_once(_, _)
RECURSIVE ObjectMembers(_, _, _)
RECURSIVE ArrayElements(_, _, _)

\* the loop of JSONObject from the key whose opening quote is at end - 1
ObjectMembers(s, end, pairs) ==
    LET key == scanstring(s, end) IN
    IF ~key.ok THEN key
    ELSE IF CharAt(s, key.end) # ":" THEN JsonError("Expecting ':' delimiter", key.end)
    ELSE LET v == scan_once(s, key.end + 1) IN
         IF ~v.ok THEN v
         ELSE LET all == Append(pairs, <<key.value.s, v.value>>) IN
              IF CharAt(s, v.end) = "}" THEN JsonValue(PyDict(DictOf(all)), v.end + 1)
              ELSE IF CharAt(s, v.end) # "," THEN JsonError("Expecting ',' delimiter", v.end)
              ELSE IF CharAt(s, v.end + 1) # DQ
              THEN JsonError("Expecting property name enclosed in double quotes", v.end + 1)
              ELSE ObjectMembers(s, v.end + 2, all)

\* JSONObject of json.decoder: the object whose "{" is at end - 1
ParseObject(s, end) ==
    IF CharAt(s, end) = "}" THEN JsonValue(PyDict(<<>>), end + 1)
    ELSE IF CharAt(s, end) # DQ
    THEN JsonError("Expecting property name enclosed in double quotes", end)
    ELSE ObjectMembers(s, end + 1, <<>>)

\* the loop of JSONArray from the value at end
ArrayElements(s, end, values) ==
    LET v == scan_once(s, end) IN
    IF ~v.ok THEN v
    ELSE IF CharAt(s, v.end) = "]" THEN JsonValue(PyList(Append(values, v.value)), v.end + 1)
    ELSE IF CharAt(s, v.end) # "," THEN JsonError("Expecting ',' delimiter", v.end)
    ELSE ArrayElements(s, v.end + 1, Append(values, v.value))

\* JSONArray of json.decoder: the array whose "[" is at end - 1
ParseArray(s, end) ==
    IF CharAt(s, end) = "]" THEN JsonValue(PyList(<<>>), end + 1)
    ELSE ArrayElements(s, end, <<>>)

\* scan_once(string, idx): the value that starts at idx
scan_once(s, idx) ==
    CASE CharAt(s, idx) = DQ -> scanstring(s, idx + 1)
      [] CharAt(s, idx) = "{" -> ParseObject(s, idx + 1)
      [] CharAt(s, idx) = "[" -> ParseArray(s, idx + 1)
      [] OTHER -> JsonError("Expecting value", idx)

\* json.loads(s) of a text: the value, or the JSONDecodeError
json_loads_text(s) ==
    LET v == scan_once(s, 0) IN
    IF ~v.ok THEN v
    ELSE IF v.end # Len(s) THEN JsonError("Extra data", v.end)
    ELSE v

\* s.rfind(c) as a Python index, -1 if there is none
RECURSIVE RFind(_, _)
RFind(s, c) ==
    IF s = <<>> THEN -1
    ELSE IF s[Len(s)] = c THEN Len(s) - 1
    ELSE RFind(SubSeq(s, 1, Len(s) - 1), c)

FALLBACK == PyDict(<< <<"rankings", PyList(<<>>)>> >>)

\* the second repair of chat_json: the text from the first "{" to the last "}"
brace_substring(raw) ==
    LET start == Find(raw, "{") - 1
        end == RFind(raw, "}")
    IN  IF start # -1 /\ end # -1 /\ end > start
        THEN json_loads_text(SubSeq(raw, start + 1, end + 1))
        ELSE JsonError("no braces", 0)

\* the first repair of chat_json: the text cut at the last "}" before the
\* position of an unterminated string; tried is FALSE when there is no such "}"
truncated_at_brace(raw, error_pos) ==
    LET truncated == SubSeq(raw, 1, error_pos)
        last_brace == RFind(truncated, "}")
    IN  IF last_brace = -1 THEN [tried |-> FALSE]
        ELSE [tried |-> TRUE] @@ json_loads_text(SubSeq(truncated, 1, last_brace + 1))

\* The part of chat_json after the call: what it returns for the text raw.
\* A decode error inside the repairs is caught and leads to the fallback.
chat_json_decode(raw) ==
    LET strict == json_loads_text(raw) IN
    IF strict.ok THEN strict.value
    ELSE LET cut == IF strict.msg = "Unterminated string starting at"
                    THEN truncated_at_brace(raw, strict.pos)
                    ELSE [tried |-> FALSE]
         IN  IF cut.tried
             THEN (IF cut.ok THEN cut.value ELSE FALLBACK)
             ELSE LET sub == brace_substring(raw) IN
                  IF sub.ok THEN sub.value ELSE FALLBACK

ChatJsonTexts(n) == {<<>>} \cup SeqsUpTo(JsonChars, n)

CallChatJson ==
    Return("chat_json", [status |-> "returned", value |-> chat_json_decode(entities[1])])

InitChatJson == InitCall("chat_json", ChatJsonTexts(MaxJsonLen))

SpecChatJson == InitChatJson /\ [][CallChatJson]_vars

\* strict decoding of the text fails with an unterminated string
UnterminatedAt(raw) ==
    LET strict == json_loads_text(raw) IN
    ~strict.ok /\ strict.msg = "Unterminated string starting at"

\* a complete JSON object of the text closes before the position of the error
ObjectClosesBefore(raw, error_pos) ==
    \E i \in 1..error_pos : \E j \in i..error_pos :
        /\ raw[i] = "{"
        /\ raw[j] = "}"
        /\ json_loads_text(SubSeq(raw, i, j)).ok

\* C12 (as claimed): when strict decoding fails with an unterminated string
\* and a complete JSON object closes before the error offset, chat_json
\* returns the decoding of the text cut at the last closing brace before the
\* offset, and not the fallback.
C12_TruncationRecoversObject ==
    (/\ pipeline = "chat_json"
     /\ pc = "done"
     /\ UnterminatedAt(entities[1])
     /\ ObjectClosesBefore(entities[1], json_loads_text(entities[1]).pos))
    => LET cut == truncated_at_brace(entities[1], json_loads_text(entities[1]).pos)
       IN  /\ cut.tried
           /\ cut.ok
           /\ out.value = cut.value
           /\ out.value # FALLBACK

\* C13 (as claimed): chat_json never raises, returns the fallback only when
\* strict decoding and both repairs fail, and returns the decoding of the text
\* from the first "{" to the last "}" whenever that text decodes and strict
\* decoding did not, also when the cut at the unterminated string failed first.
C13_FallbackOnlyWhenAllFail ==
    (pipeline = "chat_json" /\ pc = "done")
    => /\ out.status = "returned"
       /\ (~json_loads_text(entities[1]).ok /\ brace_substring(entities[1]).ok)
          => \/ out.value = brace_substring(entities[1]).value
             \/ /\ UnterminatedAt(entities[1])
                /\ truncated_at_brace(entities[1], json_loads_text(entities[1]).pos).tried
                /\ truncated_at_brace(entities[1], json_loads_text(entities[1]).pos).ok
       /\ out.value = FALLBACK => /\ ~json_loads_text(entities[1]).ok
                                  /\ ~brace_substring(entities[1]).ok

-----------------------------------------------------------------------------
(* select_topk_within_brand applied to one decoded response *)

MaxSelected == 3

\* a JSON number with a fraction part, n.0; str() of it holds a "."
PyFloat(n) == [t |-> "float", n |-> n]

SelectedEntries ==
    {PyInt(0), PyInt(1), PyFloat(1), Str(<<"1">>), Str(<<"-", "1">>),
     Str(<<"-", "-", "1">>), Str(<<"a">>)}

SelectedTopkValues(n) ==
    {PyList(<<>>), Str(<<"1">>)} \cup {PyList(v) : v \in SeqsUpTo(SelectedEntries, n)}

SelectedDetailsValues == {PyList(<<>>), PyList(<<Str(<<"a">>)>>), Str(<<"a">>)}

\* the decoded responses: objects with and without the two keys, and an array
DecodedResponses(n) ==
    {JSONArray(<<>>), JSON([notes_overall |-> Str(<<"a">>)])}
    \cup {JSON([selected_topk |-> s]) : s \in SelectedTopkValues(n)}
    \cup {JSON([selected_topk |-> s, selected_details |-> d]) :
             s \in SelectedTopkValues(n), d \in SelectedDetailsValues}

SelectTopkCalls(n) == {[data |-> r, top_k |-> k] : r \in DecodedResponses(n), k \in 1..2}

CallSelectTopk ==
    Return("select_topk",
           select_topk_within_brand(<<>>, entities[1].top_k, Reply(entities[1].data)))

InitSelectTopk == InitCall("select_topk", SelectTopkCalls(MaxSelected))

SpecSelectTopk == InitSelectTopk /\ [][CallSelectTopk]_vars

\* an entry of selected_topk that stands for a number: a JSON number, or a
\* string that int() accepts
IsNumericEntry(x) ==
    \/ x.t \in {"int", "float"}
    \/ x.t = "str" /\ IsDigitString(x.s) /\ ~IntRaises(x)

NumericCast(x) == IF x.t = "float" THEN x.n ELSE IntValue(x)

\* the array under a key of the decoded response, empty when absent or not an array
ArrayUnder(data, key) ==
    IF data.type = "object" /\ key \in DOMAIN data.data /\ data.data[key].t = "list"
    THEN data.data[key].v ELSE <<>>

\* C14 (as claimed): for any decoded response select_topk_within_brand
\* returns; selected_topk is the integer casts of the numeric entries of the
\* response's selected_topk, duplicates removed keeping the first occurrence,
\* in response order, cut to top_k; a selected_topk or selected_details that
\* is not an array is replaced by the empty list.
C14_SelectedTopkNormalised ==
    (pipeline = "select_topk" /\ pc = "done")
    => /\ ~out.raised
       /\ LET numeric == SelectSeq(ArrayUnder(entities[1].data, "selected_topk"), IsNumericEntry)
              casts == Unique([k \in DOMAIN numeric |-> NumericCast(numeric[k])])
          IN  out.value.selected_topk = SubSeq(casts, 1, Min(entities[1].top_k, Len(casts)))
       /\ out.value.selected_details = ArrayUnder(entities[1].data, "selected_details")

-----------------------------------------------------------------------------
(* parse_affinity_response applied to one response text *)

MaxLines == 2

ScoreWords == {"5", "7", "9"}

\* the lines of the response texts for a persona, over two of its dimensions:
\* a single word, "<dimension>: a", "a <dimension>", a line with two score
\* words, a line that names both dimensions
AffinityLines(persona) ==
    LET c == PERSONA_PROMPTS[persona].columns
        D == {c[1], c[2]}
    IN  {<<>>} \cup {<<w>> : w \in D \cup ScoreWords}
        \cup {<<d, ":", " ", a>> : d \in D, a \in ScoreWords}
        \cup {<<a, " ", d>> : d \in D, a \in ScoreWords}
        \cup {<<d, ":", " ", a, " ", "7">> : d \in D, a \in {"5", "9"}}
        \cup {<<c[1], " ", c[2], " ", "5">>}

\* "\n".join(lines)
RECURSIVE JoinLines(_)
JoinLines(lines) ==
    IF lines = <<>> THEN <<>>
    ELSE IF Len(lines) = 1 THEN lines[1]
    ELSE lines[1] \o <<"NL">> \o JoinLines(Tail(lines))

AffinityCalls(n) ==
    UNION { {[persona |-> p, response_text |-> JoinLines(ls)] :
                ls \in SeqsUpTo(AffinityLines(p), n)} : p \in {1, Len(PERSONA_PROMPTS)} }

CallParseAffinity ==
    Return("parse_affinity",
           [status |-> "returned",
            scores |-> parse_affinity_response(entities[1].response_text, entities[1].persona)])

InitParseAffinity == InitCall("parse_affinity", AffinityCalls(MaxLines))

SpecParseAffinity == InitParseAffinity /\ [][CallParseAffinity]_vars

\* the valid scores carried by the lines that match dimension c, in line order
RECURSIVE ScoresFor(_, _)
ScoresFor(lines, c) ==
    IF lines = <<>> THEN <<>>
    ELSE (IF c \in Range(Head(lines)) /\ FirstScore(SplitWords(Strip(Head(lines)))) # 0
          THEN <<FirstScore(SplitWords(Strip(Head(lines))))>> ELSE <<>>)
         \o ScoresFor(Tail(lines), c)

CallScoresFor(c) == ScoresFor(SplitLines(entities[1].response_text), c)

CallColumns == Range(PERSONA_PROMPTS[entities[1].persona].columns)

\* C15: parse_affinity_response returns a score for exactly the persona's
\* three dimensions, each an integer in 1..7; a dimension without a matching
\* line that carries a valid score gets the neutral 4, a dimension that was
\* found has the score of one of its matching lines.
C15_ThreeScoresWithNeutralDefault ==
    (pipeline = "parse_affinity" /\ pc = "done")
    => /\ DOMAIN out.scores = CallColumns
       /\ Cardinality(CallColumns) = 3
       /\ \A c \in CallColumns :
            /\ out.scores[c] \in 1..7
            /\ CallScoresFor(c) = <<>> => out.scores[c] = NEUTRAL_SCORE
            /\ CallScoresFor(c) # <<>> => out.scores[c] \in Range(CallScoresFor(c))

\* a response that scores one dimension away from the neutral value and
\* leaves another one out
C15_Witness ==
    /\ pipeline = "parse_affinity"
    /\ pc = "done"
    /\ \E c \in CallColumns : CallScoresFor(c) # <<>> /\ out.scores[c] # NEUTRAL_SCORE
    /\ \E c \in CallColumns : CallScoresFor(c) = <<>> /\ out.scores[c] = NEUTRAL_SCORE

\* C16 (as claimed): when more than one line matches a dimension with a valid
\* score, the returned score is that of the first such line.
C16_FirstMatchingLineWins ==
    (pipeline = "parse_affinity" /\ pc = "done")
    => \A c \in CallColumns :
          Len(CallScoresFor(c)) > 1 => out.scores[c] = CallScoresFor(c)[1]

-----------------------------------------------------------------------------
(* Properties of the Overall Ranking of run_creativity_analysis *)

CreativityReturned == pipeline = "creativity" /\ pc = "done" /\ out.status = "returned"

\* the ranking in the output is the fallback one
IsFallbackRanking(ranking) ==
    \E k \in DOMAIN ranking : ranking[k].justification = "Fallback due to ranking error"

\* the brands that passed the volume gate and were analysed, alphabetically
AnalysedBrands == SortedBrands(out.Selections)

\* C17 (as claimed): when the cross-brand ranking is invalid, the ranking has
\* one row for every analysed (non-skipped) brand, in alphabetical order with
\* ranks 1..n and originality_score 5.0: never an empty or partial table.
C17_FallbackCoversEveryAnalysedBrand ==
    (CreativityReturned /\ IsFallbackRanking(out.Ranking))
    => /\ Len(out.Ranking) = Len(AnalysedBrands)
       /\ \A k \in DOMAIN out.Ranking :
            /\ out.Ranking[k].brand = AnalysedBrands[k]
            /\ out.Ranking[k].rank = k
            /\ out.Ranking[k].originality_score = FALLBACK_SCORE

\* C18 (as claimed): whenever run_creativity_analysis returns, the Overall
\* Ranking has exactly one row for every brand in selections, whether the
\* rows come from the LLM's ranking or from the fallback.
C18_RankingComplete ==
    CreativityReturned
    => /\ \A s \in DOMAIN out.Selections :
            Cardinality({k \in DOMAIN out.Ranking :
                            out.Ranking[k].brand = out.Selections[s].brand}) = 1
       /\ \A k \in DOMAIN out.Ranking :
            \E s \in DOMAIN out.Selections : out.Selections[s].brand = out.Ranking[k].brand

\* C19 (as claimed): run_creativity_analysis produces a well-formed, possibly
\* empty, output rather than raising when no brand yields any selected row.
C19_NoRowsStillReturns ==
    (pipeline = "creativity" /\ pc = "done" /\ acc.per_brand_topk_rows = <<>>)
    => out.status = "returned"

-----------------------------------------------------------------------------
(* Content pillars: parsers of the line-oriented responses *)

\* s.startswith(prefix)
StartsWith(s, prefix) == Len(s) >= Len(prefix) /\ SubSeq(s, 1, Len(prefix)) = prefix

\* index of the first occurrence of sub in s, 0 if there is none
RECURSIVE FindSub(_, _, _)
FindSub(s, sub, from) ==
    IF from + Len(sub) - 1 > Len(s) THEN 0
    ELSE IF SubSeq(s, from, from + Len(sub) - 1) = sub THEN from
    ELSE FindSub(s, sub, from + 1)

\* s.replace(sub, "")
RECURSIVE RemoveSub(_, _)
RemoveSub(s, sub) ==
    IF s = <<>> THEN <<>>
    ELSE IF StartsWith(s, sub) THEN RemoveSub(SubSeq(s, Len(sub) + 1, Len(s)), sub)
    ELSE <<Head(s)>> \o RemoveSub(Tail(s), sub)

\* a marker such as "THEME:": the word, then the colon
Marker(word) == <<word, ":">>

\* the value of a marker line: line.replace(marker, "").strip()
MarkerValue(line, word) == Strip(RemoveSub(line, Marker(word)))

NewTheme(name) ==
    [theme |-> name, description |-> <<>>, share |-> <<>>, posts_count |-> <<>>,
     subtopics |-> <<>>, posts |-> <<>>]

\* a "- " line of parse_response_to_structure
ThemeBullet(st, line) ==
    LET content == Strip(SubSeq(line, 3, Len(line)))
        colon == Find(content, ":")
    IN  IF st.in_subtopics
        THEN IF colon = 0 THEN st
             ELSE [st EXCEPT !.current.subtopics =
                      Append(@, [subtopic |-> Strip(SubSeq(content, 1, colon - 1)),
                                 description |-> Strip(SubSeq(content, colon + 1, Len(content)))])]
        ELSE IF st.in_posts
        THEN [st EXCEPT !.current.posts =
                 Append(@, IF Head(content) = DQ /\ content[Len(content)] = DQ
                           THEN SubSeq(content, 2, Len(content) - 1) ELSE content)]
        ELSE st

\* one pass of the loop of parse_response_to_structure; st.started says
\* that current_theme is not None
ThemeLine(st, raw_line) ==
    LET line == Strip(raw_line) IN
    IF line = <<>> THEN st
    ELSE IF StartsWith(line, Marker("THEME"))
    THEN [themes |-> IF st.started THEN Append(st.themes, st.current) ELSE st.themes,
          current |-> NewTheme(MarkerValue(line, "THEME")),
          started |-> TRUE, in_subtopics |-> FALSE, in_posts |-> FALSE]
    ELSE IF StartsWith(line, Marker("DESCRIPTION"))
    THEN (IF st.started
          THEN [st EXCEPT !.current.description = MarkerValue(line, "DESCRIPTION")] ELSE st)
    ELSE IF StartsWith(line, Marker("SHARE"))
    THEN (IF st.started THEN [st EXCEPT !.current.share = MarkerValue(line, "SHARE")] ELSE st)
    ELSE IF StartsWith(line, Marker("POSTS_COUNT"))
    THEN (IF st.started
          THEN [st EXCEPT !.current.posts_count = MarkerValue(line, "POSTS_COUNT")] ELSE st)
    ELSE IF StartsWith(line, Marker("SUBTOPICS"))
    THEN [st EXCEPT !.in_subtopics = TRUE, !.in_posts = FALSE]
    ELSE IF StartsWith(line, Marker("POSTS"))
    THEN [st EXCEPT !.in_subtopics = FALSE, !.in_posts = TRUE]
    ELSE IF StartsWith(line, <<"-", " ">>) /\ st.started
    THEN ThemeBullet(st, line)
    ELSE st

RECURSIVE ThemeLines(_, _)
ThemeLines(lines, st) ==
    IF lines = <<>> THEN st ELSE ThemeLines(Tail(lines), ThemeLine(st, Head(lines)))

\* parse_response_to_structure(response_text): the list of themes
parse_response_to_structure(response_text) ==
    LET st == ThemeLines(SplitLines(response_text),
                         [themes |-> <<>>, current |-> NewTheme(<<>>), started |-> FALSE,
                          in_subtopics |-> FALSE, in_posts |-> FALSE])
    IN  IF st.started THEN Append(st.themes, st.current) ELSE st.themes

SECTIONS ==
    <<"MOST GENERIC THEMES", "MODERATELY DIFFERENTIATED THEMES", "MOST DIFFERENTIATED THEMES">>

RANKING_HEADER == "COMPANY DIFFERENTIATION RANKING"

RankPrefixes == {"1.", "2.", "3.", "4.", "5.", "6.", "7.", "8.", "9."}

\* one pass of the loop of parse_summary_to_rows; section "" is None
SummaryLine(st, raw_line) ==
    LET line == Strip(raw_line)
        info == MarkerValue(line, "THEME")
        dash == FindSub(info, <<" ", "-", " ">>, 1)
    IN  IF line = <<>> THEN st
        ELSE IF \E k \in DOMAIN SECTIONS : StartsWith(line, Marker(SECTIONS[k]))
        THEN [st EXCEPT !.section = line[1]]
        ELSE IF StartsWith(line, Marker(RANKING_HEADER))
        THEN [st EXCEPT !.section = "RANKING"]
        ELSE IF StartsWith(line, Marker("THEME")) /\ st.section # ""
        THEN (IF dash = 0 THEN st
              ELSE [st EXCEPT !.structured =
                       Append(@, <<st.section, Strip(SubSeq(info, 1, dash - 1)),
                                   Strip(SubSeq(info, dash + 3, Len(info)))>>)])
        ELSE IF Head(line) \in RankPrefixes /\ st.section = "RANKING"
        THEN [st EXCEPT !.ranking = Append(@, line)]
        ELSE st

RECURSIVE SummaryLines(_, _)
SummaryLines(lines, st) ==
    IF lines = <<>> THEN st ELSE SummaryLines(Tail(lines), SummaryLine(st, Head(lines)))

\* parse_summary_to_rows(summary_text): structured rows and ranking lines
parse_summary_to_rows(summary_text) ==
    SummaryLines(SplitLines(summary_text), [section |-> "", structured |-> <<>>, ranking |-> <<>>])

-----------------------------------------------------------------------------
(* Content pillars: analyze_content_pillars_for_month *)

\* Responses to the content pillar prompt
PillarReplies ==
    { <<"THEME", ":", " ", "a", "NL", "DESCRIPTION", ":", " ", "b", "NL",
        "SUBTOPICS", ":", "NL", "-", " ", "a", ":", " ", "b", "NL",
        "POSTS", ":", "NL", "-", " ", DQ, "a", DQ>>,
      <<"THEME", ":", " ", "a", "NL", "SHARE", ":", " ", "5", "NL",
        "THEME", ":", " ", "b", "NL", "POSTS_COUNT", ":", " ", "5">>,
      <<"a">> }

PillarOutcomes == {Raise} \cup {Reply(r) : r \in PillarReplies}

\* Responses to the genericity comparison prompt
SummaryReplies ==
    { <<"MOST GENERIC THEMES", ":", "NL", "THEME", ":", " ", "a", " ", "-", " ", "b", "NL",
        RANKING_HEADER, ":", "NL", "1.", " ", "Acme">>,
      <<"THEME", ":", " ", "a", " ", "-", " ", "b">> }

SummaryOutcomes == {Raise} \cup {Reply(r) : r \in SummaryReplies}

\* brand_df[text_column].dropna().tolist()
DropNa(cells) == SelectSeq(cells, LAMBDA x : x.t \notin {"float", "NA", "None"})

\* "\n".join(texts) raises TypeError on an item that is not a str
JoinRaises(texts) == \E k \in DOMAIN texts : texts[k].t # "str"

\* content_pillar_outputs[key] = value
DictSet(d, key, value) == DictOf(Append(d, <<key, value>>))

\* the chat call and parse_response_to_structure inside the try block
pillar_entry(llm) ==
    IF llm.kind = "raise" THEN Str(<<"Error: ", "APIError">>)
    ELSE PyList(parse_response_to_structure(llm.text))

\* str.title() of a section name
Title(section) ==
    CASE section = "MOST GENERIC THEMES" -> "Most Generic Themes"
      [] section = "MODERATELY DIFFERENTIATED THEMES" -> "Moderately Differentiated Themes"
      [] section = "MOST DIFFERENTIATED THEMES" -> "Most Differentiated Themes"

\* the '__summary__' entry, given the outcome of the comparison call
summary_entry(llm) ==
    IF llm.kind = "raise" THEN Str(<<"Error generating summary: ", "APIError">>)
    ELSE LET parsed == parse_summary_to_rows(llm.text) IN
         PyList([k \in DOMAIN parsed.structured |->
                    [theme |-> <<Title(parsed.structured[k][1]), ": ">>
                               \o parsed.structured[k][2],
                     examples |-> <<>>]]
                \o <<[theme |-> <<RANKING_HEADER>>, examples |-> parsed.ranking]>>)

\* the sheet written for one entry of content_pillar_outputs, <<>> if none
SheetOf(key, value) ==
    IF key = "__summary__"
    THEN (IF \E k \in DOMAIN value.v : value.v[k].examples # <<>> THEN <<"Summary">> ELSE <<>>)
    ELSE IF value.t = "str" THEN <<key, "_Error">>
    ELSE IF \E k \in DOMAIN value.v : value.v[k].subtopics # <<>> \/ value.v[k].posts # <<>>
    THEN <<key>> ELSE <<>>

\* the loop that writes the workbook; it ends at a '__summary__' entry that
\* is an error string (TypeError, caught and logged)
RECURSIVE ExcelSheets(_)
ExcelSheets(outputs) ==
    IF outputs = <<>> THEN <<>>
    ELSE IF outputs[1][1] = "__summary__" /\ outputs[1][2].t = "str" THEN <<>>
    ELSE LET sheet == SheetOf(outputs[1][1], outputs[1][2]) IN
         (IF sheet = <<>> THEN <<>> ELSE <<sheet>>) \o ExcelSheets(Tail(outputs))

\* df is None or df.empty: return None
PillarsNoData ==
    /\ pipeline = "content_pillars"
    /\ pc = "loop"
    /\ entities = <<>>
    /\ out' = [status |-> "returned", value |-> None]
    /\ pc' = "done"
    /\ UNCHANGED <<debug_count, pipeline, entities, fut, llm_calls, attempt, waits, yielded, acc>>

\* one pass of the loop over the brands
PillarBrand ==
    /\ pipeline = "content_pillars"
    /\ pc = "loop"
    /\ acc.brand_column
    /\ acc.next \in DOMAIN entities
    /\ LET brand == entities[acc.next].company
           texts == DropNa(entities[acc.next].texts)
           after == IF acc.next = Len(entities) THEN "summary" ELSE "loop"
       IN  IF texts = <<>> \/ Len(texts) < MIN_POSTS_FOR_ANALYSIS
           THEN /\ acc' = [acc EXCEPT !.next = @ + 1]
                /\ pc' = after
                /\ UNCHANGED out
           ELSE IF JoinRaises(texts)
           THEN /\ out' = [status |-> "raised", error |-> "TypeError"]
                /\ pc' = "done"
                /\ UNCHANGED acc
           ELSE \E llm \in PillarOutcomes :
                /\ acc' = [acc EXCEPT !.next = @ + 1, !.calls = @ + 1,
                                      !.outputs = DictSet(@, brand, pillar_entry(llm))]
                /\ pc' = after
                /\ UNCHANGED out
    /\ UNCHANGED <<debug_count, pipeline, entities, fut, llm_calls, attempt, waits, yielded>>

\* all texts of the frame, when it has no brand column
AllTexts ==
    LET F[k \in 0..Len(entities)] ==
            IF k = 0 THEN <<>> ELSE F[k - 1] \o entities[k].texts
    IN  F[Len(entities)]

\* the branch without a brand column: one analysis of the full content set
PillarOverall ==
    /\ pipeline = "content_pillars"
    /\ pc = "loop"
    /\ ~acc.brand_column
    /\ entities # <<>>
    /\ LET texts == DropNa(AllTexts) IN
       IF texts = <<>>
       THEN /\ out' = [status |-> "returned", value |-> None]
            /\ pc' = "done"
            /\ UNCHANGED acc
       ELSE IF JoinRaises(texts)
       THEN /\ out' = [status |-> "raised", error |-> "TypeError"]
            /\ pc' = "done"
            /\ UNCHANGED acc
       ELSE \E llm \in PillarOutcomes :
            /\ acc' = [acc EXCEPT !.calls = @ + 1,
                                  !.outputs = DictSet(@, "Overall", pillar_entry(llm))]
            /\ pc' = "summary"
            /\ UNCHANGED out
    /\ UNCHANGED <<debug_count, pipeline, entities, fut, llm_calls, attempt, waits, yielded>>

\* the genericity summary, the pickle file (writing it may fail) and the workbook
FinishPillars ==
    /\ pipeline = "content_pillars"
    /\ pc = "summary"
    /\ \E llm \in SummaryOutcomes, saved \in BOOLEAN :
         LET outputs == DictSet(acc.outputs, "__summary__", summary_entry(llm)) IN
         /\ acc' = [acc EXCEPT !.calls = @ + 1, !.outputs = outputs]
         /\ out' = IF saved
                   THEN [status |-> "returned",
                         value |-> Str(<<"content_pillar_outputs.pkl">>),
                         Sheets |-> ExcelSheets(outputs)]
                   ELSE [status |-> "returned", value |-> None]
    /\ pc' = "done"
    /\ UNCHANGED <<debug_count, pipeline, entities, fut, llm_calls, attempt, waits, yielded>>

\* a brand's cells of the text column
PillarGroups ==
    { [texts |-> t] : t \in Vary(MIN_POSTS_FOR_ANALYSIS, Str(<<"a">>), {NaN, PyInt(1)}, {1})
                             \cup {[k \in 1..(MIN_POSTS_FOR_ANALYSIS - 1) |-> Str(<<"a">>)],
                                   <<NaN>>} }

InitContentPillars ==
    /\ pipeline = "content_pillars"
    /\ entities \in {<<>>} \cup GroupEntities(PillarGroups)
    /\ pc = "loop"
    /\ acc \in {[brand_column |-> b, next |-> 1, calls |-> 0, outputs |-> <<>>] : b \in BOOLEAN}
    /\ fut = <<>>
    /\ llm_calls = <<>>
    /\ attempt = <<>>
    /\ waits = <<>>
    /\ yielded = <<>>
    /\ out = [status |-> "running"]
    /\ debug_count = 0

NextContentPillars == PillarsNoData \/ PillarBrand \/ PillarOverall \/ FinishPillars

SpecContentPillars == InitContentPillars /\ [][NextContentPillars]_vars

\* C20 (as claimed): every brand present in the input has exactly one
\* terminal entry in content_pillar_outputs (parsed themes, an error value or
\* a skipped-for-volume value), also when it has fewer than
\* MIN_POSTS_FOR_ANALYSIS posts or no text.
C20_EveryBrandHasOneEntry ==
    (pipeline = "content_pillars" /\ pc = "done" /\ acc.brand_column
        /\ out.status = "returned" /\ entities # <<>>)
    => \A i \in DOMAIN entities :
          Cardinality({k \in DOMAIN acc.outputs :
                          acc.outputs[k][1] = entities[i].company}) = 1

-----------------------------------------------------------------------------
(* Ownership of the state that worker threads write *)

\* worker i takes a step of its function
WorkerStep(i) ==
    /\ fut[i].state = "running"
    /\ \/ fut'[i] # fut[i]
       \/ llm_calls'[i] # llm_calls[i]
       \/ attempt'[i] # attempt[i]
       \/ waits'[i] # waits[i]

\* C21 (as claimed): during a batch no mutable state is written by more than
\* one worker: a step of a worker thread writes only that worker's own
\* future and counters, leaves the shared result collections to the
\* dispatching thread, and writes no object another worker has written.
C21_WorkersWriteOnlyTheirOwnState ==
    [][\A i \in Tasks :
          WorkerStep(i)
          => /\ acc' = acc
             /\ \A j \in Tasks \ {i} :
                   /\ fut'[j] = fut[j]
                   /\ llm_calls'[j] = llm_calls[j]
                   /\ attempt'[j] = attempt[j]
                   /\ waits'[j] = waits[j]
             /\ debug_count' # debug_count => debug_count = 0]_vars

-----------------------------------------------------------------------------
(* Termination of run_compos_analysis *)

\* Every LLM call eventually returns or raises (the workers keep stepping),
\* the pool keeps starting queued tasks and the dispatching thread keeps
\* running
FairSpecCompos ==
    /\ SpecCompos
    /\ WF_vars(Submit)
    /\ WF_vars(\E i \in Tasks : StartTask(i))
    /\ WF_vars(\E i \in Tasks : AssignArchetypeAds(i))
    /\ WF_vars(\E i \in Tasks : AssignArchetypeSocialMedia(i))
    /\ WF_vars(\E i \in Tasks : CollectCompos(i))
    /\ WF_vars(FinishCompos)

\* C22: if every LLM call eventually returns or raises, run_compos_analysis
\* eventually returns, and when it has returned every submitted task has
\* completed: none is pending or running when the output frame is built.
C22_ReturnsAfterAllTasksCompleted ==
    /\ <>(pc = "done" /\ out.status = "returned")
    /\ [](pc = "done" => \A i \in Tasks : fut[i].state = "finished")

\* a run of two items that returned after a worker had to retry
C22_Witness ==
    /\ pipeline \in ComposPipelines
    /\ pc = "done"
    /\ out.status = "returned"
    /\ NumTasks = 2
    /\ \E i \in Tasks : attempt[i] > 1
    /\ \A i \in Tasks : fut[i].state = "finished"

-----------------------------------------------------------------------------
(* Archetype summaries *)

MaxCount(counts) == CHOOSE c \in {counts[k][2] : k \in DOMAIN counts} :
                        \A k \in DOMAIN counts : counts[k][2] <= c

\* get_archetype_summary(df) of a frame with the column "Top Archetype": the
\* value counts, the label of the largest count and its share count/len*100
\* (kept as a fraction)
get_archetype_summary(column) ==
    LET counts == CountLabels(column, <<>>) IN
    [total_items |-> Len(column),
     archetype_distribution |-> counts,
     top_archetype |-> IF counts = <<>> THEN None ELSE TopOf(counts),
     top_archetype_percentage |->
        IF counts = <<>> THEN [num |-> 0, den |-> 1]
        ELSE [num |-> 100 * MaxCount(counts), den |-> Len(column)]]

RECURSIVE SumCounts(_)
SumCounts(counts) == IF counts = <<>> THEN 0 ELSE counts[1][2] + SumCounts(Tail(counts))

CountOf(counts, label) ==
    LET hits == {k \in DOMAIN counts : counts[k][1] = label} IN
    IF hits = {} THEN 0 ELSE counts[CHOOSE k \in hits : TRUE][2]

\* the tally of a group of n labelled items: counts sum to n, the top label
\* has the maximal count
TallyIsRight(counts, top, n) ==
    /\ SumCounts(counts) = n
    /\ CountOf(counts, top) = MaxCount(counts)

\* the share of the dominant label of a summary row, in tenths of a percent
DominantShare(row) ==
    PctTenths(CountOf([j \in DOMAIN row.Shares |-> <<row.Shares[j][1], row.Shares[j][2]>>],
                      row.TopArchetype),
              row.TotalMaterials)

\* the tallies and shares of the ads frame and of the PR summary
SummariesTallyRight ==
    /\ (pipeline = "ads_compos" /\ pc = "done" /\ out.status = "returned")
       => LET s == get_archetype_summary(out.TopArchetype) IN
          /\ TallyIsRight(s.archetype_distribution, s.top_archetype, NumTasks)
          /\ s.top_archetype_percentage.num * NumTasks
                = 100 * MaxCount(s.archetype_distribution) * s.top_archetype_percentage.den
    /\ (pipeline = "pr_compos" /\ pc = "done" /\ out.status = "returned")
       => \A k \in DOMAIN out.Summary :
             LET row == out.Summary[k]
                 counts == [j \in DOMAIN row.Shares |-> <<row.Shares[j][1], row.Shares[j][2]>>]
             IN  /\ TallyIsRight(counts, row.TopArchetype, row.TotalMaterials)
                 /\ \A j \in DOMAIN row.Shares :
                       row.Shares[j][3] = PctTenths(row.Shares[j][2], row.TotalMaterials)

\* C23 (as claimed): the archetype summary tallies the labels of a group of
\* n items so that the counts sum to n, reports a label of maximal count as
\* top archetype and each share as count/n*100, and ranks the groups by the
\* share of their dominant label.
C23_TalliedAndRankedByDominantShare ==
    /\ SummariesTallyRight
    /\ (pipeline = "pr_compos" /\ pc = "done" /\ out.status = "returned")
       => \A k \in DOMAIN out.Summary : \A j \in DOMAIN out.Summary :
             k < j => DominantShare(out.Summary[k]) >= DominantShare(out.Summary[j])

-----------------------------------------------------------------------------
(* Top-2-box percentages *)

\* the posts of a company result whose stored score of column c is high
HighPosts(result, c) ==
    {j \in DOMAIN result.individual_posts :
        result.individual_posts[j].scores[PersonaOfColumn(c)][c] >= HIGH_SCORE}

\* the posts whose scoring call for the persona of column c returned a
\* response that gives c a high score
HighReplies(posts, llms, c) ==
    LET p == PersonaOfColumn(c) IN
    {j \in DOMAIN posts :
        LET llm == llms[(p - 1) * Len(posts) + j] IN
        /\ llm.kind = "reply"
        /\ parse_affinity_response(llm.text, p)[c] >= HIGH_SCORE}

\* C24: for every company that passes the gate with n posts,
\* analyze_company_affinity reports for each dimension 100*k/n rounded to one
\* decimal, k being the number of posts scored 6 or more; the value lies in
\* 0..100, and a post whose scoring call failed counts as not high.
C24_Top2BoxIsShareOfHighPosts ==
    /\ (pipeline = "audience_affinity" /\ pc = "done" /\ out.status = "returned")
       => \A r \in DOMAIN out.company_results :
             LET result == out.company_results[r] IN
             IsValidResult(result) =>
                \A c \in AllColumns :
                   /\ result.top2box[c]
                        = RoundDiv(1000 * Cardinality(HighPosts(result, c)), result.post_count)
                   /\ 0 <= result.top2box[c] /\ result.top2box[c] <= 1000
    /\ pipeline = "audience_affinity"
       => \A i \in Tasks :
             (fut[i].state = "running" /\ Len(entities[i].posts) >= MIN_POSTS_FOR_ANALYSIS) =>
                \A llms \in AffinityRuns(Len(entities[i].posts)) : \A c \in AllColumns :
                   analyze_company_affinity(entities[i].company, entities[i].posts,
                                            llms).result.value.top2box[c]
                     = RoundDiv(1000 * Cardinality(HighReplies(entities[i].posts, llms, c)),
                                Len(entities[i].posts))

\* a company with one high post out of n was reported
C24_Witness ==
    /\ pipeline = "audience_affinity" /\ pc = "done" /\ out.status = "returned"
    /\ \E r \in DOMAIN out.company_results :
          LET result == out.company_results[r] IN
          /\ IsValidResult(result)
          /\ \E c \in AllColumns :
                /\ Cardinality(HighPosts(result, c)) = 1
                /\ result.top2box[c] = RoundDiv(1000, result.post_count)
                /\ result.top2box[c] > 0

-----------------------------------------------------------------------------
(* Key advantages: the rows of a company's table *)

\* two rows cite the same example: same example index and same quote
SameCitation(a, b) ==
    /\ a.example_index # None
    /\ a.example_index = b.example_index
    /\ a.example_quote = b.example_quote

\* C25 (as claimed): the per-company table built by process_company has one
\* row per example of each advantage and no two of its rows cite the same
\* example (same example index and quote).
C25_NoExampleCitedTwice ==
    (pipeline = "key_advantages" /\ pc = "done" /\ out.status = "returned")
    => \A s \in DOMAIN out.Sheets :
          LET rows == out.Sheets[s][2] IN
          \A k \in DOMAIN rows : \A j \in DOMAIN rows :
             k # j => ~SameCitation(rows[k], rows[j])

-----------------------------------------------------------------------------
(* Creativity: cleaning of the item texts *)

\* A text is kept as a sequence of runs: [c |-> character, n |-> how often it
\* is repeated].  "NL", "CR" and "TAB" are the characters \n, \r and \t.
MaxRuns == 2

MAX_CHARS_PER_ITEM == 1000

Run(c, n) == [c |-> c, n |-> n]

TextChars == {"a", " ", "NL", "CR", "TAB"}
RegexWhiteSpace == {" ", "NL", "CR", "TAB"}
ELLIPSIS == "..."

RunLengths == {1, 2, MAX_CHARS_PER_ITEM - 1, MAX_CHARS_PER_ITEM, MAX_CHARS_PER_ITEM + 1}

\* len(s)
RECURSIVE TextLen(_)
TextLen(s) == IF s = <<>> THEN 0 ELSE Head(s).n + TextLen(Tail(s))

\* s.replace("\n", " ").replace("\r", " ")
ReplaceNewlines(s) ==
    [k \in DOMAIN s |-> IF s[k].c \in {"NL", "CR"} THEN Run(" ", s[k].n) ELSE s[k]]

\* re.sub(r"\s+", " ", s): every maximal stretch of whitespace becomes one space
RECURSIVE CollapseWhiteSpace(_, _)
CollapseWhiteSpace(s, in_space) ==
    IF s = <<>> THEN <<>>
    ELSE IF Head(s).c \in RegexWhiteSpace
    THEN (IF in_space THEN <<>> ELSE <<Run(" ", 1)>>) \o CollapseWhiteSpace(Tail(s), TRUE)
    ELSE <<Head(s)>> \o CollapseWhiteSpace(Tail(s), FALSE)

\* s.strip()
RECURSIVE StripRuns(_)
StripRuns(s) ==
    IF s = <<>> THEN s
    ELSE IF Head(s).c \in RegexWhiteSpace THEN StripRuns(Tail(s))
    ELSE IF s[Len(s)].c \in RegexWhiteSpace THEN StripRuns(SubSeq(s, 1, Len(s) - 1))
    ELSE s

\* normalize_text(s): "" for a value that is not a str
normalize_text(x) ==
    IF x.t # "str" THEN <<>>
    ELSE StripRuns(CollapseWhiteSpace(ReplaceNewlines(x.s), FALSE))

\* s[:limit]
RECURSIVE Slice(_, _)
Slice(s, limit) ==
    IF s = <<>> \/ limit <= 0 THEN <<>>
    ELSE IF Head(s).n <= limit THEN <<Head(s)>> \o Slice(Tail(s), limit - Head(s).n)
    ELSE <<Run(Head(s).c, limit)>>

\* truncate(s, limit)
truncate(s, limit) ==
    IF s = <<>> THEN <<>>
    ELSE IF TextLen(s) <= limit THEN s
    ELSE Slice(s, limit) \o <<Run(ELLIPSIS, 1)>>

\* the values of the text column: strings of up to n runs, and missing values
RawTexts(n) ==
    {NaN, None} \cup
    {Str(s) : s \in UNION {[1..k -> {Run(c, m) : c \in TextChars, m \in RunLengths}]
                           : k \in 0..n}}

\* df[text_column].map(lambda x: truncate(normalize_text(x), MAX_CHARS_PER_ITEM))
\* for one value of the column
CleanText ==
    Return("clean_text",
           [status |-> "returned",
            text |-> truncate(normalize_text(entities[1]), MAX_CHARS_PER_ITEM)])

InitCleanText == InitCall("clean_text", RawTexts(MaxRuns))

SpecCleanText == InitCleanText /\ [][CleanText]_vars

\* no newline, no run of more than one whitespace character, no whitespace
\* at either end
WhiteSpaceNormalised(s) ==
    /\ \A k \in DOMAIN s :
          s[k].c \in RegexWhiteSpace =>
             /\ s[k].c = " " /\ s[k].n = 1
             /\ k > 1 /\ k < Len(s)
             /\ s[k - 1].c \notin RegexWhiteSpace

CleanedTextsAreNormalised ==
    (pipeline = "clean_text" /\ pc = "done") => WhiteSpaceNormalised(out.text)

\* C26 (as claimed): every item text embedded in a within-brand prompt is
\* whitespace-normalised (no newline, no run of more than one whitespace
\* character, no leading or trailing whitespace) and at most
\* MAX_CHARS_PER_ITEM characters long.
C26_TextsNormalisedAndBounded ==
    (pipeline = "clean_text" /\ pc = "done")
    => /\ WhiteSpaceNormalised(out.text)
       /\ TextLen(out.text) <= MAX_CHARS_PER_ITEM

-----------------------------------------------------------------------------
(* Creativity: the rows of the selected items *)

\* the results of the brands whose within-brand selection succeeded
SelectedBrands ==
    {i \in Tasks : fut[i].state = "finished" /\ ~fut[i].value.skipped}

\* the selected indices that lie in 0..len-1, in selection order
InRangeIndices(selected, len) ==
    SelectSeq(selected, LAMBDA idx : 0 <= idx /\ idx < len)

\* C27: item i of a brand's group is sent tagged idx = i; every index j of
\* the validated selection produces the output row of exactly that group's
\* item j, an index outside 0..len-1 produces no row, and a brand has at
\* most min(TOP_K_PER_BRAND, group size) selected rows.
C27_RowsAreTheSelectedItems ==
    pipeline = "creativity"
    => \A i \in SelectedBrands :
          LET g == entities[i].items
              result == fut[i].value
              valid == InRangeIndices(result.selection.selected_topk, Len(g))
          IN  /\ \A j \in 0..(Len(g) - 1) :
                    /\ compact_items(g)[j + 1].idx = j
                    /\ compact_items(g)[j + 1].text = g[j + 1].text
              /\ Len(result.rows) = Len(valid)
              /\ \A k \in DOMAIN valid :
                    result.rows[k] = [brand |-> entities[i].company,
                                      reach |-> g[valid[k] + 1].reach,
                                      text |-> g[valid[k] + 1].text]
              /\ Len(result.rows) <= Min(TOP_K_PER_BRAND, Len(g))

\* a brand whose selection named indices beyond both ends of its group got
\* rows for the others
C27_Witness ==
    /\ pipeline = "creativity"
    /\ \E i \in SelectedBrands :
          LET sel == fut[i].value.selection.selected_topk IN
          /\ \E k \in DOMAIN sel : sel[k] >= Len(entities[i].items)
          /\ \E k \in DOMAIN sel : sel[k] < 0
          /\ Len(fut[i].value.rows) >= 1

-----------------------------------------------------------------------------
(* Content pillars: parse_response_to_structure as a single call *)

MaxThemeLines == 3

\* the lines of a themes response: markers, bullets with and without a
\* colon, a quoted bullet, a blank line, other text
ThemeResponseLines ==
    { <<"THEME", ":", " ", "a">>, <<" ", "THEME", ":", "b">>,
      <<"DESCRIPTION", ":", " ", "d">>,
      <<"SUBTOPICS", ":">>, <<"POSTS", ":">>,
      <<"-", " ", "s", ":", " ", "d">>, <<"-", " ", "p">>, <<"-", " ", DQ, "q", DQ>>,
      <<>>, <<"x">> }

ThemeResponses(n) == {JoinLines(ls) : ls \in SeqsUpTo(ThemeResponseLines, n)}

CallParseThemes ==
    Return("parse_themes",
           [status |-> "returned", themes |-> parse_response_to_structure(entities[1])])

InitParseThemes == InitCall("parse_themes", ThemeResponses(MaxThemeLines))

SpecParseThemes == InitParseThemes /\ [][CallParseThemes]_vars

IsThemeLine(line) == StartsWith(Strip(line), Marker("THEME"))
IsSubtopicsHeader(line) == StartsWith(Strip(line), Marker("SUBTOPICS"))
IsPostsHeader(line) == StartsWith(Strip(line), Marker("POSTS"))
IsBulletLine(line) == StartsWith(Strip(line), <<"-", " ">>)

\* the positions of the lines that start with "THEME:", in order
ThemeStarts(lines) ==
    SelectSeq([k \in DOMAIN lines |-> k], LAMBDA k : IsThemeLine(lines[k]))

\* the section that the bullet at line k of the theme opened at line `from`
\* belongs to: that of the latest section header since the THEME line
BulletMode(lines, from, k) ==
    LET headers == {h \in (from + 1)..(k - 1) :
                       IsSubtopicsHeader(lines[h]) \/ IsPostsHeader(lines[h])}
    IN  IF headers = {} THEN "none"
        ELSE LET h == CHOOSE x \in headers : \A y \in headers : y <= x IN
             IF IsSubtopicsHeader(lines[h]) THEN "subtopics" ELSE "posts"

\* the bullets of section `mode` of the n-th theme
BulletsOf(lines, n, mode) ==
    LET starts == ThemeStarts(lines)
        from == starts[n]
        to == IF n < Len(starts) THEN starts[n + 1] ELSE Len(lines) + 1
    IN  {k \in (from + 1)..(to - 1) :
            IsBulletLine(lines[k]) /\ BulletMode(lines, from, k) = mode}

\* a subtopic bullet needs a colon after its name to be kept
HasColon(line) == Find(Strip(SubSeq(Strip(line), 3, Len(Strip(line)))), ":") # 0

InitialThemeState ==
    [themes |-> <<>>, current |-> NewTheme(<<>>), started |-> FALSE,
     in_subtopics |-> FALSE, in_posts |-> FALSE]

\* one record per THEME line, in order, and the two modes never both active
ThemeRecordsAndModes(lines, themes) ==
    /\ Len(themes) = Len(ThemeStarts(lines))
    /\ \A n \in DOMAIN themes :
          themes[n].theme = MarkerValue(Strip(lines[ThemeStarts(lines)[n]]), "THEME")
    /\ \A p \in 0..Len(lines) :
          LET st == ThemeLines(SubSeq(lines, 1, p), InitialThemeState) IN
          ~(st.in_subtopics /\ st.in_posts)

\* the parse as the code does it: a subtopic bullet without a colon is dropped
ThemesParsedExceptColonlessSubtopics ==
    (pipeline = "parse_themes" /\ pc = "done")
    => LET lines == SplitLines(entities[1]) IN
       /\ ThemeRecordsAndModes(lines, out.themes)
       /\ \A n \in DOMAIN out.themes :
             /\ Len(out.themes[n].subtopics)
                  = Cardinality({k \in BulletsOf(lines, n, "subtopics") : HasColon(lines[k])})
             /\ Len(out.themes[n].posts) = Cardinality(BulletsOf(lines, n, "posts"))

-----------------------------------------------------------------------------
(* Audience affinity: scoring calls and per-post details *)

\* the affinity workers that have finished
FinishedAffinityWorkers ==
    {i \in Tasks : pipeline = "audience_affinity" /\ fut[i].state = "finished"}

\* C29: for a company that passes the gate with n posts,
\* analyze_company_affinity makes exactly one scoring call per (persona,
\* post) pair, 4*n calls whatever their outcome; individual_posts has exactly
\* n entries and entry i holds post i's content and one score set for each of
\* the four personas.
C29_OneCallAndOneScoreSetPerPersonaAndPost ==
    \A i \in FinishedAffinityWorkers :
       LET posts == entities[i].posts
           result == fut[i].value
       IN  Len(posts) >= MIN_POSTS_FOR_ANALYSIS =>
              /\ llm_calls[i] = 4 * Len(posts)
              /\ Len(result.individual_posts) = Len(posts)
              /\ \A j \in DOMAIN posts :
                    /\ result.individual_posts[j].post_content = posts[j]
                    /\ DOMAIN result.individual_posts[j].scores = 1..4
                    /\ \A p \in 1..4 :
                          DOMAIN result.individual_posts[j].scores[p]
                            = Range(PERSONA_PROMPTS[p].columns)

\* a company of five posts was analysed with 20 calls, and one post has the
\* neutral scores of a failed call next to parsed scores for another persona
C29_Witness ==
    \E i \in FinishedAffinityWorkers :
       /\ Len(entities[i].posts) = MIN_POSTS_FOR_ANALYSIS
       /\ llm_calls[i] = 20
       /\ \E j \in DOMAIN entities[i].posts : \E p, q \in 1..4 :
             /\ \A c \in Range(PERSONA_PROMPTS[p].columns) :
                   fut[i].value.individual_posts[j].scores[p][c] = NEUTRAL_SCORE
             /\ \A c \in Range(PERSONA_PROMPTS[q].columns) :
                   fut[i].value.individual_posts[j].scores[q][c] # NEUTRAL_SCORE

-----------------------------------------------------------------------------
(* run_analysis.main: the loop over the media types and their analyses *)

\* how many keys of ANALYSIS_CONTROL are set to True
MaxEnabled == 2

\* A key of ANALYSIS_CONTROL is the sequence of its words, which the key
\* joins with "_": <<"social", "media", "content", "pillars">>
MediaParts(media_type) ==
    CASE media_type = "ads" -> <<"ads">>
      [] media_type = "social_media" -> <<"social", "media">>
      [] media_type = "pr" -> <<"pr">>

AnalysisParts(analysis) ==
    CASE analysis = "compos" -> <<"compos">>
      [] analysis = "creativity" -> <<"creativity">>
      [] analysis = "key_advantages" -> <<"key", "advantages">>
      [] analysis = "content_pillars" -> <<"content", "pillars">>
      [] analysis = "audience_affinity" -> <<"audience", "affinity">>
      [] analysis = "agility" -> <<"agility">>

\* f"{media_type}_{analysis}"
ControlKey(media_type, analysis) == MediaParts(media_type) \o AnalysisParts(analysis)

\* the blocks of the loop body, in source order
ANALYSIS_BLOCKS ==
    <<"compos", "creativity", "key_advantages", "content_pillars", "audience_affinity",
      "agility">>

MediaTypeNames == {"ads", "social_media", "pr"}

ControlKeys == {ControlKey(m, a) : m \in MediaTypeNames, a \in Range(ANALYSIS_BLOCKS)}

\* the media type that main parses from an enabled key
MediaOfKey(key) ==
    IF Len(key) >= 2 /\ key[1] = "social" /\ key[2] = "media" THEN "social_media"
    ELSE key[1]

\* media_types_to_process
media_types_to_process(control) == {MediaOfKey(key) : key \in control}

\* the media types for which a block calls an analysis function
ImplementedFor(analysis) ==
    CASE analysis \in {"compos", "creativity"} -> {"ads", "social_media", "pr"}
      [] analysis = "key_advantages" -> {"ads"}
      [] analysis \in {"content_pillars", "audience_affinity"} -> {"social_media"}
      [] analysis = "agility" -> {"pr"}

\* the orders in which a set can be iterated
Orders(S) == {f \in [1..Cardinality(S) -> S] : \A x \in S : \E k \in DOMAIN f : f[k] = x}

\* the configurations: the keys that are True, and the iteration order of
\* the set media_types_to_process
MainInputs(n) ==
    UNION { {[control |-> c, order |-> o] : o \in Orders(media_types_to_process(c))}
            : c \in {s \in SUBSET ControlKeys : 1 <= Cardinality(s) /\ Cardinality(s) <= n} }

InitMain ==
    /\ pipeline = "main"
    /\ entities \in {<<x>> : x \in MainInputs(MaxEnabled)}
    /\ pc = "load"
    /\ fut = <<>>
    /\ llm_calls = <<>>
    /\ attempt = <<>>
    /\ waits = <<>>
    /\ yielded = <<>>
    /\ acc = [m |-> 1, k |-> 1, ready |-> {}, processed_data |-> {}, analyses |-> {},
              errors |-> <<>>]
    /\ out = [status |-> "running"]
    /\ debug_count = 0

\* the media type of the current pass of the loop
CurrentMedia == entities[1].order[acc.m]

\* `continue`, or the end of the loop body: the next media type, or the summary
NextMedia(a) ==
    IF a.m < Len(entities[1].order) THEN <<[a EXCEPT !.m = @ + 1, !.k = 1], "load">>
    ELSE <<a, "summary">>

\* The head of the loop body for one media type: loading, validating,
\* cleaning and appending its data (skipped for PR when the agility merge is
\* enabled)
LoadMedia ==
    /\ pipeline = "main"
    /\ pc = "load"
    /\ LET mt == CurrentMedia
           failed(kind) == [acc EXCEPT !.errors = Append(@, [media |-> mt, analysis |-> "data",
                                                                kind |-> kind])]
       IN
       IF mt = "pr" /\ ControlKey("pr", "agility") \in entities[1].control
       THEN /\ acc' = acc
            /\ pc' = "analyses"
       ELSE \E loaded \in {"raise", "empty", "invalid", "ok"} :
               CASE loaded = "ok" ->
                      /\ acc' = [acc EXCEPT !.ready = @ \cup {mt},
                                            !.processed_data = @ \cup {mt}]
                      /\ pc' = "analyses"
                 [] loaded = "empty" ->
                      /\ acc' = NextMedia(acc)[1]
                      /\ pc' = NextMedia(acc)[2]
                 [] OTHER ->
                      /\ acc' = NextMedia(failed(loaded))[1]
                      /\ pc' = NextMedia(failed(loaded))[2]
    /\ UNCHANGED <<debug_count, pipeline, entities, fut, llm_calls, attempt, waits, yielded, out>>

\* what an analysis function can do: raise, return nothing, return a path;
\* the key advantages function returns a path or raises
AnalysisOutcomes(analysis) ==
    IF analysis = "key_advantages" THEN {"raise", "file"} ELSE {"raise", "none", "file"}

\* after block k: the next block, or the next media type
AfterBlock(a) ==
    IF a.k < Len(ANALYSIS_BLOCKS) THEN <<[a EXCEPT !.k = @ + 1], "analyses">>
    ELSE NextMedia(a)

\* One analysis block of the loop body for the current media type:
\* yielded gets an entry when the block is entered
AnalysisBlock ==
    /\ pipeline = "main"
    /\ pc = "analyses"
    /\ LET mt == CurrentMedia
           analysis == ANALYSIS_BLOCKS[acc.k]
           entry(outcome) == [media |-> mt, analysis |-> analysis, outcome |-> outcome]
       IN
       IF ControlKey(mt, analysis) \notin entities[1].control
       THEN /\ acc' = AfterBlock(acc)[1]
            /\ pc' = AfterBlock(acc)[2]
            /\ UNCHANGED yielded
       ELSE IF mt \notin ImplementedFor(analysis)
       THEN /\ yielded' = Append(yielded, entry("not implemented"))
            /\ acc' = NextMedia(acc)[1]
            /\ pc' = NextMedia(acc)[2]
       ELSE \E outcome \in AnalysisOutcomes(analysis) :
               LET done == IF outcome = "file"
                           THEN [acc EXCEPT !.analyses = @ \cup {<<mt, analysis>>},
                                            !.processed_data =
                                               IF analysis = "agility" THEN @ \cup {mt} ELSE @]
                           ELSE [acc EXCEPT !.errors = Append(@, entry(outcome))]
               IN  /\ yielded' = Append(yielded, entry(outcome))
                   /\ acc' = AfterBlock(done)[1]
                   /\ pc' = AfterBlock(done)[2]
    /\ UNCHANGED <<debug_count, pipeline, entities, fut, llm_calls, attempt, waits, out>>

\* the summary at the end of main
MainSummary ==
    /\ pipeline = "main"
    /\ pc = "summary"
    /\ out' = [status |-> "returned", analyses |-> acc.analyses, errors |-> acc.errors,
               processed_data |-> acc.processed_data]
    /\ pc' = "done"
    /\ UNCHANGED <<debug_count, pipeline, entities, fut, llm_calls, attempt, waits, yielded, acc>>

NextMain == LoadMedia \/ AnalysisBlock \/ MainSummary

SpecMain == InitMain /\ [][NextMain]_vars

\* the analyses enabled for a media type, in block order
EnabledFor(media_type) ==
    SelectSeq(ANALYSIS_BLOCKS, LAMBDA a : ControlKey(media_type, a) \in entities[1].control)

\* the analyses of a media type whose block was entered, in the order of entry
AttemptedFor(media_type) ==
    LET entries == SelectSeq(yielded, LAMBDA e : e.media = media_type) IN
    [k \in DOMAIN entries |-> entries[k].analysis]

\* every failed attempt has its entry in results['errors']
FailuresRecorded ==
    \A k \in DOMAIN yielded :
       yielded[k].outcome \in {"raise", "none"} =>
          \E e \in DOMAIN out.errors : out.errors[e] = yielded[k]

AttemptsStopAtNotImplemented ==
    (pipeline = "main" /\ pc = "done")
    => /\ \A mt \in acc.ready :
             LET done == AttemptedFor(mt)
                 all == EnabledFor(mt)
             IN  /\ Len(done) <= Len(all)
                 /\ done = SubSeq(all, 1, Len(done))
                 /\ Len(done) < Len(all)
                      => /\ done # <<>>
                         /\ mt \notin ImplementedFor(done[Len(done)])
       /\ FailuresRecorded
       /\ acc.m = Len(entities[1].order)

=============================================================================
